---------------------------- MODULE Spec2Model ----------------------------
(***************************************************************************)
(* A model of rustc-demangle: the legacy decoder (src/src/legacy.rs) and   *)
(* the v0 parser/printer (src/src/v0.rs).                                  *)
(*                                                                         *)
(* A symbol is a sequence of bytes.  An ASCII byte is the one-character    *)
(* string of its character; a byte with bit 7 set is one of HiBytes.       *)
(* Output is a sequence of characters: an ASCII character is its           *)
(* one-character string, any other scalar value n is "U+" \o ToString(n).  *)
(***************************************************************************)
EXTENDS Integers, Sequences, FiniteSets, TLC

VARIABLES
    sym,    \* the input string handed to the library
    pc,     \* what has been applied to it so far
    dem,    \* the result of the last demangle call
    shown   \* the result of the last Display call

vars == <<sym, pc, dem, shown>>

-----------------------------------------------------------------------------
(* Bytes and characters *)

Dec == <<"0","1","2","3","4","5","6","7","8","9">>
Lower == <<"a","b","c","d","e","f","g","h","i","j","k","l","m",
           "n","o","p","q","r","s","t","u","v","w","x","y","z">>
Upper == <<"A","B","C","D","E","F","G","H","I","J","K","L","M",
           "N","O","P","Q","R","S","T","U","V","W","X","Y","Z">>

\* two bytes with bit 7 set: the UTF-8 encoding of U+0493
HiBytes == {"xD2", "x93"}

Range(s) == {s[i] : i \in 1..Len(s)}

\* 0-based position of c in the alphabet a (c is known to be in it)
Ord(c, a) == (CHOOSE i \in 1..Len(a) : a[i] = c) - 1

IsDec(c) == c \in Range(Dec)
IsLower(c) == c \in Range(Lower)
IsUpper(c) == c \in Range(Upper)
IsAscii(c) == c \notin HiBytes

StartsWith(s, pre) == Len(s) >= Len(pre) /\ SubSeq(s, 1, Len(pre)) = pre
EndsWith(s, c) == Len(s) >= 1 /\ s[Len(s)] = c
\* &s[n..] with n a 0-based byte offset
Drop(s, n) == SubSeq(s, n + 1, Len(s))
\* &s[..n]
Take(s, n) == SubSeq(s, 1, n)

RECURSIVE Flatten(_)
Flatten(ss) == IF ss = <<>> THEN <<>> ELSE Head(ss) \o Flatten(Tail(ss))

Min(a, b) == IF a < b THEN a ELSE b
Max(a, b) == IF a > b THEN a ELSE b

-----------------------------------------------------------------------------
(* Unsigned machine integers.  The values of usize, u64 and u32 variables  *)
(* do not fit the integers of the checker, so such a value is the sequence *)
(* of its 16-bit limbs, least significant first, without leading zero      *)
(* limbs: 0 is <<>>.  Multipliers and divisors are small constants of the  *)
(* source (10, 16, 62, 36 - t, damp, len).                                 *)

Limb == 256 * 256

RECURSIVE BigOf(_)
BigOf(n) == IF n = 0 THEN <<>> ELSE <<n % Limb>> \o BigOf(n \div Limb)

\* the value of a, which is known to be below 2^30
Small(a) ==
    IF a = <<>> THEN 0 ELSE IF Len(a) = 1 THEN a[1] ELSE a[1] + Limb * a[2]
IsSmall(a) == Len(a) <= 1 \/ (Len(a) = 2 /\ a[2] < Limb \div 4)

\* the least significant limb and the limbs above it
Limb0(a) == IF a = <<>> THEN 0 ELSE Head(a)
Above(a) == IF a = <<>> THEN <<>> ELSE Tail(a)

RECURSIVE BigAddC(_, _, _)
BigAddC(a, b, c) ==
    IF a = <<>> /\ b = <<>> THEN (IF c = 0 THEN <<>> ELSE <<c>>)
    ELSE <<(Limb0(a) + Limb0(b) + c) % Limb>> \o
         BigAddC(Above(a), Above(b), (Limb0(a) + Limb0(b) + c) \div Limb)
BigAdd(a, b) == BigAddC(a, b, 0)

RECURSIVE BigMulC(_, _, _)
BigMulC(a, m, c) ==
    IF a = <<>> THEN (IF c = 0 THEN <<>> ELSE <<c>>)
    ELSE <<(Head(a) * m + c) % Limb>> \o BigMulC(Tail(a), m, (Head(a) * m + c) \div Limb)
\* a * m for 0 <= m < Limb
BigMul(a, m) == IF m = 0 THEN <<>> ELSE BigMulC(a, m, 0)

\* one step of the long division by d: h is [q, r] of the limbs above a0
BigDivStep(h, a0, d) ==
    [q |-> IF h.q = <<>> /\ (h.r * Limb + a0) \div d = 0 THEN <<>>
           ELSE <<(h.r * Limb + a0) \div d>> \o h.q,
     r |-> (h.r * Limb + a0) % d]

\* [q, r]: a \div d and a % d for 0 < d < Limb \div 4
RECURSIVE BigDivRem(_, _)
BigDivRem(a, d) ==
    IF a = <<>> THEN [q |-> <<>>, r |-> 0]
    ELSE BigDivStep(BigDivRem(Tail(a), d), Head(a), d)

RECURSIVE BigLess(_, _)
BigLess(a, b) ==
    IF Len(a) # Len(b) THEN Len(a) < Len(b)
    ELSE IF a = <<>> THEN FALSE
    ELSE IF a[Len(a)] # b[Len(b)] THEN a[Len(a)] < b[Len(b)]
    ELSE BigLess(SubSeq(a, 1, Len(a) - 1), SubSeq(b, 1, Len(b) - 1))

\* `a as u32`
AsU32(a) ==
    LET lo == IF Len(a) >= 1 THEN a[1] ELSE 0
        hi == IF Len(a) >= 2 THEN a[2] ELSE 0
    IN IF hi # 0 THEN <<lo, hi>> ELSE IF lo # 0 THEN <<lo>> ELSE <<>>

\* the value is representable in a usize (64 bits), a u64, a u32
FitsUsize(a) == Len(a) <= 4
FitsU64(a) == Len(a) <= 4
FitsU32(a) == Len(a) <= 2

\* <u64 as fmt::Display>::fmt and <u64 as fmt::LowerHex>::fmt
HexDigits == <<"0","1","2","3","4","5","6","7","8","9","a","b","c","d","e","f">>
\* the digits of the quotient, then the digit of the remainder
RECURSIVE Radix(_, _)
RadixDigits(h, b) == (IF h.q = <<>> THEN <<>> ELSE Radix(h.q, b)) \o <<HexDigits[h.r + 1]>>
Radix(a, b) == RadixDigits(BigDivRem(a, b), b)
DecStr(a) == Radix(a, 10)
HexStr(a) == Radix(a, 16)

-----------------------------------------------------------------------------
(* The sink: a fmt::Write with room for cap bytes, as FormatBuf of the     *)
(* fuzz target; cap = NoCap is a String, which never fails.                *)

NoCap == 0 - 1

NewSink(cap) == [buf |-> <<>>, cap |-> cap, refused |-> FALSE]

SinkFits(f, s) == f.cap = NoCap \/ Len(f.buf) + Len(s) <= f.cap

write_str(f, s) ==
    IF SinkFits(f, s) THEN [f EXCEPT !.buf = @ \o s]
    ELSE [f EXCEPT !.refused = TRUE]

-----------------------------------------------------------------------------
(* legacy.rs *)

LegacyErr == [ok |-> FALSE, inner |-> <<>>, elements |-> 0]

\* legacy.rs 52-64: the three accepted envelopes
legacy_inner(s) ==
    IF Len(s) > 4 /\ StartsWith(s, <<"_","Z","N">>) /\ EndsWith(s, "E")
    THEN [ok |-> TRUE, inner |-> SubSeq(s, 4, Len(s) - 1)]
    ELSE IF Len(s) > 3 /\ StartsWith(s, <<"Z","N">>) /\ EndsWith(s, "E")
    THEN [ok |-> TRUE, inner |-> SubSeq(s, 3, Len(s) - 1)]
    ELSE IF Len(s) > 5 /\ StartsWith(s, <<"_","_","Z","N">>) /\ EndsWith(s, "E")
    THEN [ok |-> TRUE, inner |-> SubSeq(s, 5, Len(s) - 1)]
    ELSE [ok |-> FALSE, inner |-> <<>>]

\* legacy.rs 74-88: the digits at pos.. (1-based), with checked_mul/checked_add
RECURSIVE legacy_read_len(_, _, _)
legacy_read_len(inner, pos, i) ==
    IF pos <= Len(inner) /\ IsDec(inner[pos])
    THEN LET checked_add(mul, sum) ==
                 IF ~FitsUsize(mul) \/ ~FitsUsize(sum)
                 THEN [ok |-> FALSE, i |-> <<>>, pos |-> pos]
                 ELSE legacy_read_len(inner, pos + 1, sum)
             checked_mul(mul) ==
                 checked_add(mul, BigAdd(mul, BigOf(Ord(inner[pos], Dec))))
         IN checked_mul(BigMul(i, 10))
    ELSE [ok |-> TRUE, i |-> i, pos |-> pos]

\* legacy.rs 73-100: the loop over the elements
RECURSIVE legacy_scan(_, _, _)
legacy_scan(inner, pos, elements) ==
    LET element(r) ==
            IF ~r.ok THEN LegacyErr
            ELSE IF r.i = <<>>
            THEN IF r.pos <= Len(inner) THEN LegacyErr
                 ELSE [ok |-> TRUE, inner |-> inner, elements |-> elements]
            ELSE IF BigLess(BigOf(Len(inner) - r.pos + 1), r.i) THEN LegacyErr
            ELSE legacy_scan(inner, r.pos + Small(r.i), elements + 1)
    IN element(legacy_read_len(inner, pos, <<>>))

\* legacy.rs 48-106
legacy_demangle(s) ==
    LET elements(e) ==
            IF ~e.ok THEN LegacyErr
            ELSE IF \E i \in 1..Len(e.inner) : ~IsAscii(e.inner[i]) THEN LegacyErr
            ELSE legacy_scan(e.inner, 1, 0)
    IN elements(legacy_inner(s))

\* char::is_digit(16)
IsHex(c) == IsDec(c) \/ c \in {"a","b","c","d","e","f","A","B","C","D","E","F"}

\* legacy.rs 109-111
is_rust_hash(s) ==
    StartsWith(s, <<"h">>) /\ \A i \in 2..Len(s) : IsHex(s[i])

\* legacy.rs 161-185: the escapes, in the order they are tried
LegacyEscapes == <<
    << <<"$","S","P","$">>, <<"@">> >>,
    << <<"$","B","P","$">>, <<"*">> >>,
    << <<"$","R","F","$">>, <<"&">> >>,
    << <<"$","L","T","$">>, <<"<">> >>,
    << <<"$","G","T","$">>, <<">">> >>,
    << <<"$","L","P","$">>, <<"(">> >>,
    << <<"$","R","P","$">>, <<")">> >>,
    << <<"$","C","$">>, <<",">> >>,
    << <<"$","u","7","e","$">>, <<"~">> >>,
    << <<"$","u","2","0","$">>, <<" ">> >>,
    << <<"$","u","2","7","$">>, <<"'">> >>,
    << <<"$","u","3","d","$">>, <<"=">> >>,
    << <<"$","u","5","b","$">>, <<"[">> >>,
    << <<"$","u","5","d","$">>, <<"]">> >>,
    << <<"$","u","7","b","$">>, <<"{">> >>,
    << <<"$","u","7","d","$">>, <<"}">> >>,
    << <<"$","u","3","b","$">>, <<";">> >>,
    << <<"$","u","2","b","$">>, <<"+">> >>,
    << <<"$","u","2","1","$">>, <<"!">> >>,
    << <<"$","u","2","2","$">>, <<"\"">> >> >>

\* the Display state: the formatter and how fmt ended so far
\* st: "run" (no error), "fmt" (fmt::Error returned), "panic"
LFail(w, st) == [w EXCEPT !.st = st]

\* try!(f.write_str(s))
LWrite(w, s) ==
    LET written(f) == [f |-> f, st |-> IF f.refused THEN "fmt" ELSE "run"]
    IN written(write_str(w.f, s))

\* legacy.rs 136-194: the loop over one element's bytes
RECURSIVE legacy_fmt_rest(_, _)
legacy_fmt_rest(rest, w) ==
    IF w.st # "run" \/ rest = <<>> THEN w
    ELSE IF rest[1] = "."
    THEN IF Len(rest) >= 2 /\ rest[2] = "."
         THEN legacy_fmt_rest(Drop(rest, 2), LWrite(w, <<":",":">>))
         ELSE legacy_fmt_rest(Drop(rest, 1), LWrite(w, <<".">>))
    ELSE IF rest[1] = "$"
    THEN LET escape(e) == legacy_fmt_rest(Drop(rest, Len(e[1])), LWrite(w, e[2]))
             first(hits) ==
                 IF hits # {}
                 THEN escape(LegacyEscapes[CHOOSE k \in hits : \A j \in hits : k <= j])
                 ELSE LWrite(w, rest)
         IN first({k \in 1..Len(LegacyEscapes) : StartsWith(rest, LegacyEscapes[k][1])})
    ELSE LET upto(idx) == legacy_fmt_rest(Drop(rest, idx), LWrite(w, Take(rest, idx)))
             find(stops) ==
                 upto(IF stops = {} THEN Len(rest)
                      ELSE (CHOOSE i \in stops : \A j \in stops : i <= j) - 1)
         IN find({i \in 1..Len(rest) : rest[i] \in {"$", "."}})

\* legacy.rs 119-121: the offset of the first non-digit of inner, or -1 when
\* the unwrap of chars().next() finds nothing
RECURSIVE legacy_skip_digits(_, _)
legacy_skip_digits(inner, k) ==
    IF k >= Len(inner) THEN 0 - 1
    ELSE IF IsDec(inner[k + 1]) THEN legacy_skip_digits(inner, k + 1)
    ELSE k

\* str::parse::<usize>: [ok, v]
RECURSIVE ParseUsizeFrom(_, _)
ParseUsizeFrom(ds, acc) ==
    IF ds = <<>> THEN [ok |-> TRUE, v |-> acc]
    ELSE LET checked(sum) == IF ~FitsUsize(sum) THEN [ok |-> FALSE, v |-> <<>>]
                             ELSE ParseUsizeFrom(Tail(ds), sum)
         IN checked(BigAdd(BigMul(acc, 10), BigOf(Ord(Head(ds), Dec))))
ParseUsize(ds) == IF ds = <<>> THEN [ok |-> FALSE, v |-> <<>>] ELSE ParseUsizeFrom(ds, <<>>)

\* legacy.rs 117-195: the loop over the elements
RECURSIVE legacy_fmt_elements(_, _, _, _, _)
legacy_fmt_elements(elements, inner, element, alt, w) ==
    IF w.st # "run" \/ element >= elements THEN w
    ELSE LET one(rest, after) ==
                 IF alt /\ element + 1 = elements /\ is_rust_hash(rest) THEN w
                 ELSE legacy_fmt_elements(
                          elements, after, element + 1, alt,
                          legacy_fmt_rest(IF StartsWith(rest, <<"_","$">>)
                                          THEN Drop(rest, 1) ELSE rest,
                                          IF element # 0 THEN LWrite(w, <<":",":">>) ELSE w))
             split(parsed, rest0) ==
                 IF ~parsed.ok \/ BigLess(BigOf(Len(rest0)), parsed.v)
                 THEN LFail(w, "panic")
                 ELSE one(Take(rest0, Small(parsed.v)), Drop(rest0, Small(parsed.v)))
             number(k) ==
                 IF k < 0 THEN LFail(w, "panic")
                 ELSE split(ParseUsize(Take(inner, k)), Drop(inner, k))
         IN number(legacy_skip_digits(inner, 0))

\* a Display that leaves the hash out in normal mode too
legacy_fmt_AlwaysAlternate(d, alt, f) ==
    legacy_fmt_elements(d.elements, d.inner, 0, TRUE, [f |-> f, st |-> "run"])

\* legacy.rs 113-199: <legacy::Demangle as Display>::fmt
legacy_fmt(d, alt, f) ==
    legacy_fmt_elements(d.elements, d.inner, 0, alt, [f |-> f, st |-> "run"])

-----------------------------------------------------------------------------
(* v0.rs: Parser.  A parser is [sym, next, depth]; a method returns        *)
(* [err, ps, x]: err is "ok", "Invalid", "RecursedTooDeep" or "panic" (an  *)
(* arithmetic overflow, with overflow checks on), ps the parser after the  *)
(* call, x the value.                                                      *)

\* v0.rs 15.  The model scales the limit down so that the states at the limit
\* are reachable by symbols of a few bytes.
MAX_DEPTH == 6

NoByte == ""

Ok(ps, x) == [err |-> "ok", ps |-> ps, x |-> x]
Fail(ps, e) == [err |-> e, ps |-> ps, x |-> 0]

\* a push_depth that lets one level too many through
push_depth_Late(ps) ==
    IF ps.depth + 1 > MAX_DEPTH + 1
    THEN Fail([ps EXCEPT !.depth = @ + 1], "RecursedTooDeep")
    ELSE Ok([ps EXCEPT !.depth = @ + 1], 0)

\* v0.rs 302-309
push_depth(ps) ==
    IF ps.depth + 1 > MAX_DEPTH THEN Fail([ps EXCEPT !.depth = @ + 1], "RecursedTooDeep")
    ELSE Ok([ps EXCEPT !.depth = @ + 1], 0)

\* v0.rs 315-317
peek(ps) == IF ps.next < Len(ps.sym) THEN ps.sym[ps.next + 1] ELSE NoByte

\* v0.rs 319-326
eat(ps, b) ==
    IF peek(ps) = b THEN Ok([ps EXCEPT !.next = @ + 1], TRUE) ELSE Ok(ps, FALSE)

\* v0.rs 328-332
next(ps) ==
    IF peek(ps) = NoByte THEN Fail(ps, "Invalid")
    ELSE Ok([ps EXCEPT !.next = @ + 1], peek(ps))

IsNibble(c) == IsDec(c) \/ c \in {"a","b","c","d","e","f"}

\* v0.rs 334-344: the loop ends at the first byte that is no nibble, which
\* `next` has consumed, or at the end of the input
hex_nibbles(ps) ==
    LET stops == {j \in (ps.next + 1)..Len(ps.sym) : ~IsNibble(ps.sym[j])}
        end == IF stops = {} THEN Len(ps.sym)
               ELSE CHOOSE j \in stops : \A i \in stops : j <= i
    IN IF stops = {} THEN Fail([ps EXCEPT !.next = end], "Invalid")
       ELSE IF ps.sym[end] = "_"
       THEN Ok([ps EXCEPT !.next = end], SubSeq(ps.sym, ps.next + 1, end - 1))
       ELSE Fail([ps EXCEPT !.next = end], "Invalid")

\* v0.rs 346-353
digit_10(ps) ==
    IF IsDec(peek(ps)) THEN Ok([ps EXCEPT !.next = @ + 1], Ord(peek(ps), Dec))
    ELSE Fail(ps, "Invalid")

\* v0.rs 355-364
digit_62(ps) ==
    LET digit(d) ==
            IF IsDec(d) THEN Ok([ps EXCEPT !.next = @ + 1], Ord(d, Dec))
            ELSE IF IsLower(d) THEN Ok([ps EXCEPT !.next = @ + 1], 10 + Ord(d, Lower))
            ELSE IF IsUpper(d) THEN Ok([ps EXCEPT !.next = @ + 1], 10 + 26 + Ord(d, Upper))
            ELSE Fail(ps, "Invalid")
    IN digit(peek(ps))

\* v0.rs 371-377: the loop and the final + 1
RECURSIVE integer_62_digits(_, _)
integer_62_digits(ps, x) ==
    LET digit(r) ==
            IF r.err # "ok" THEN r
            ELSE IF ~FitsU64(BigMul(x, 62))
                    \/ ~FitsU64(BigAdd(BigMul(x, 62), BigOf(r.x)))
            THEN Fail(r.ps, "Invalid")
            ELSE integer_62_digits(r.ps, BigAdd(BigMul(x, 62), BigOf(r.x)))
    IN IF ~eat(ps, "_").x THEN digit(digit_62(ps))
       ELSE IF ~FitsU64(BigAdd(x, BigOf(1))) THEN Fail(eat(ps, "_").ps, "Invalid")
       ELSE Ok(eat(ps, "_").ps, BigAdd(x, BigOf(1)))

\* v0.rs 366-378
integer_62(ps) ==
    LET digits(e) == IF e.x THEN Ok(e.ps, <<>>) ELSE integer_62_digits(ps, <<>>)
    IN digits(eat(ps, "_"))

\* v0.rs 380-385
opt_integer_62(ps, tag) ==
    LET checked_add(r, sum) ==
            IF ~FitsU64(sum) THEN Fail(r.ps, "Invalid") ELSE Ok(r.ps, sum)
        plus_one(r) ==
            IF r.err # "ok" THEN r ELSE checked_add(r, BigAdd(r.x, BigOf(1)))
        tagged(e) == IF ~e.x THEN Ok(ps, <<>>) ELSE plus_one(integer_62(e.ps))
    IN tagged(eat(ps, tag))

\* v0.rs 387-389
disambiguator(ps) == opt_integer_62(ps, "s")

\* v0.rs 391-401: x is the namespace character, or NoByte for None
namespace(ps) ==
    LET ns(r) ==
            IF r.err # "ok" THEN r
            ELSE IF IsUpper(r.x) THEN Ok(r.ps, r.x)
            ELSE IF IsLower(r.x) THEN Ok(r.ps, NoByte)
            ELSE Fail(r.ps, "Invalid")
    IN ns(next(ps))

\* a backref whose sub-parser takes the depth over as it is
backref_NoPush(ps) ==
    IF ps.next = 0 THEN Fail(ps, "panic")
    ELSE LET s_start == ps.next - 1
             new_parser(r) ==
                 IF r.err # "ok" THEN r
                 ELSE IF ~BigLess(r.x, BigOf(s_start)) THEN Fail(r.ps, "Invalid")
                 ELSE Ok(r.ps, [sym |-> ps.sym, next |-> Small(r.x),
                                depth |-> r.ps.depth])
         IN new_parser(integer_62(ps))

\* a backref that may point to its own `B`
backref_ToItself(ps) ==
    IF ps.next = 0 THEN Fail(ps, "panic")
    ELSE LET s_start == ps.next - 1
             pushed(r, d) == IF d.err # "ok" THEN Fail(r.ps, d.err) ELSE Ok(r.ps, d.ps)
             new_parser(r) ==
                 IF r.err # "ok" THEN r
                 ELSE IF BigLess(BigOf(s_start), r.x) THEN Fail(r.ps, "Invalid")
                 ELSE pushed(r, push_depth([sym |-> ps.sym, next |-> Small(r.x),
                                            depth |-> r.ps.depth]))
         IN new_parser(integer_62(ps))

\* v0.rs 403-416: x is the parser of the target
backref(ps) ==
    IF ps.next = 0 THEN Fail(ps, "panic")
    ELSE LET s_start == ps.next - 1
             pushed(r, d) == IF d.err # "ok" THEN Fail(r.ps, d.err) ELSE Ok(r.ps, d.ps)
             new_parser(r) ==
                 IF r.err # "ok" THEN r
                 ELSE IF ~BigLess(r.x, BigOf(s_start)) THEN Fail(r.ps, "Invalid")
                 ELSE pushed(r, push_depth([sym |-> ps.sym, next |-> Small(r.x),
                                            depth |-> r.ps.depth]))
         IN new_parser(integer_62(ps))

\* v0.rs 422-425: the digits after a non-zero first digit
RECURSIVE ident_len(_, _)
ident_len(ps, len) ==
    LET checked_add(r, mul, sum) ==
            IF ~FitsUsize(mul) \/ ~FitsUsize(sum) THEN Fail(r.ps, "Invalid")
            ELSE ident_len(r.ps, sum)
        checked_mul(r, mul) ==
            IF r.err # "ok" THEN Ok(ps, len)
            ELSE checked_add(r, mul, BigAdd(mul, BigOf(r.x)))
    IN checked_mul(digit_10(ps), BigMul(len, 10))

\* bytes::rposition(|b| b == b'_'): the 0-based offset of the last '_', or -1
RPosition(s) ==
    LET last(at) == IF at = {} THEN 0 - 1 ELSE (CHOOSE i \in at : \A j \in at : j <= i) - 1
    IN last({i \in 1..Len(s) : s[i] = "_"})

\* v0.rs 418-460: x is [ascii, punycode]
ident(ps) ==
    LET punycode(ps2, x) ==
            IF x.punycode = <<>> THEN Fail(ps2, "Invalid") ELSE Ok(ps2, x)
        split(is_punycode, ps2, id, i) ==
            IF ~is_punycode THEN Ok(ps2, [ascii |-> id, punycode |-> <<>>])
            ELSE punycode(ps2, IF i >= 0
                               THEN [ascii |-> Take(id, i), punycode |-> Drop(id, i + 1)]
                               ELSE [ascii |-> <<>>, punycode |-> id])
        slice(is_punycode, start, ps2) ==
            split(is_punycode, ps2, SubSeq(ps2.sym, start + 1, ps2.next),
                  RPosition(SubSeq(ps2.sym, start + 1, ps2.next)))
        range(is_punycode, ps1, end) ==
            IF ~FitsUsize(end) THEN Fail(ps1, "Invalid")
            ELSE IF BigLess(BigOf(Len(ps1.sym)), end)
            THEN Fail([ps1 EXCEPT !.next = IF IsSmall(end) THEN Small(end) ELSE @],
                      "Invalid")
            ELSE slice(is_punycode, ps1.next, [ps1 EXCEPT !.next = Small(end)])
        skip(is_punycode, l, ps1) ==
            range(is_punycode, ps1, BigAdd(BigOf(ps1.next), l.x))
        len(is_punycode, l) ==
            IF l.err # "ok" THEN l ELSE skip(is_punycode, l, eat(l.ps, "_").ps)
        first(is_punycode, d) ==
            IF d.err # "ok" THEN d
            ELSE len(is_punycode,
                     IF d.x # 0 THEN ident_len(d.ps, BigOf(d.x)) ELSE Ok(d.ps, <<>>))
        tagged(u) == first(u.x, digit_10(u.ps))
    IN tagged(eat(ps, "u"))

-----------------------------------------------------------------------------
(* v0.rs: Ident and its punycode *)

\* v0.rs 114
SMALL_PUNYCODE_LEN == 128

\* an output character: ASCII bytes print as themselves
Scalar(n) == "U+" \o ToString(n)

\* char::from_u32 accepts the u32 n: at most U+10FFFF and no surrogate
IsScalarValue(n) ==
    /\ IsSmall(n)
    /\ Small(n) <= 1114111
    /\ ~(55296 <= Small(n) /\ Small(n) <= 57343)

\* an insert that takes every character
small_insert_Unbounded(out, i, c) ==
    [ok |-> TRUE, out |-> Take(out, i) \o <<c>> \o Drop(out, i), past |-> i > Len(out)]

\* v0.rs 123-140: the insert closure of try_small_punycode_decode;
\* out is the used part out[..out_len] of the buffer, and past tells that
\* the position is after the end of that part
small_insert(out, i, c) ==
    IF Len(out) >= SMALL_PUNYCODE_LEN THEN [ok |-> FALSE, out |-> out, past |-> FALSE]
    ELSE [ok |-> TRUE, out |-> Take(out, i) \o <<c>> \o Drop(out, i),
          past |-> i > Len(out)]

\* the result r of the insertions after one that was past the end or not
After(past, r) == [r EXCEPT !.past = @ \/ past]

\* v0.rs 163-166: the ASCII fragment, its first half and then the rest
RECURSIVE punycode_ascii(_, _)
punycode_ascii(ascii, out) ==
    IF ascii = <<>> THEN [ok |-> TRUE, out |-> out, past |-> FALSE]
    ELSE IF Len(ascii) = 1 THEN small_insert(out, Len(out), Head(ascii))
    ELSE LET rest(r) ==
                 IF ~r.ok THEN r
                 ELSE After(r.past,
                            punycode_ascii(Drop(ascii, Len(ascii) \div 2), r.out))
         IN rest(punycode_ascii(Take(ascii, Len(ascii) \div 2), out))

\* v0.rs 183-200: one delta; pos is the 0-based offset of the next byte
RECURSIVE punycode_delta(_, _, _, _, _, _)
punycode_delta(bytes, pos, bias, k0, w, delta) ==
    LET none == [ok |-> FALSE, delta |-> <<>>, pos |-> pos]
        digit(t, d) ==
            IF d < 0 THEN none
            ELSE IF ~FitsUsize(BigMul(w, d)) \/ ~FitsUsize(BigAdd(delta, BigMul(w, d)))
            THEN none
            ELSE IF d < t
            THEN [ok |-> TRUE, delta |-> BigAdd(delta, BigMul(w, d)), pos |-> pos + 1]
            ELSE IF ~FitsUsize(BigMul(w, 36 - t)) THEN none
            ELSE punycode_delta(bytes, pos + 1, bias, k0 + 36, BigMul(w, 36 - t),
                                BigAdd(delta, BigMul(w, d)))
    IN digit(Min(Max(IF k0 + 36 > bias THEN k0 + 36 - bias ELSE 0, 1), 26),
             IF pos >= Len(bytes) THEN 0 - 1
             ELSE IF IsLower(bytes[pos + 1]) THEN Ord(bytes[pos + 1], Lower)
             ELSE IF IsDec(bytes[pos + 1]) THEN 26 + Ord(bytes[pos + 1], Dec)
             ELSE 0 - 1)

\* v0.rs 229-234: bias adaptation
RECURSIVE punycode_adapt(_, _)
punycode_adapt(delta, k) ==
    IF BigLess(BigOf(((36 - 1) * 26) \div 2), delta)
    THEN punycode_adapt(BigDivRem(delta, 36 - 1).q, k + 36)
    ELSE k + ((36 - 1 + 1) * Small(delta)) \div (Small(delta) + 38)

\* v0.rs 178-235: the loop over the deltas
RECURSIVE punycode_loop(_, _, _, _, _, _, _, _)
punycode_loop(bytes, pos, len0, i0, n0, bias, damp, out) ==
    LET none == [ok |-> FALSE, out |-> out, past |-> FALSE]
        inserted(r, i, n, ins) ==
            IF ~ins.ok \/ r.pos >= Len(bytes) THEN ins
            ELSE After(ins.past,
                       punycode_loop(bytes, r.pos, len0 + 1, i + 1, n,
                                     punycode_adapt(
                                         BigAdd(BigDivRem(r.delta, damp).q,
                                                BigDivRem(BigDivRem(r.delta, damp).q,
                                                          len0 + 1).q),
                                         0),
                                     2, ins.out))
        char(r, i, n) ==
            IF ~FitsUsize(n) \/ ~FitsU32(n) \/ ~IsScalarValue(n) THEN none
            ELSE inserted(r, i, n, small_insert(out, i, Scalar(Small(n))))
        decoded(r) ==
            IF ~r.ok \/ ~FitsUsize(BigAdd(BigOf(i0), r.delta)) THEN none
            ELSE char(r, BigDivRem(BigAdd(BigOf(i0), r.delta), len0 + 1).r,
                      BigAdd(n0, BigDivRem(BigAdd(BigOf(i0), r.delta), len0 + 1).q))
    IN decoded(punycode_delta(bytes, pos, bias, 0, BigOf(1), <<>>))

\* v0.rs 120-146 with 151-236: the decoded characters, when decoding succeeds
try_small_punycode_decode(id) ==
    IF id.punycode = <<>> THEN [ok |-> FALSE, out |-> <<>>, past |-> FALSE]
    ELSE LET deltas(a) ==
                 IF ~a.ok THEN a
                 ELSE After(a.past,
                            punycode_loop(id.punycode, 0, Len(id.ascii), 0, BigOf(128),
                                          72, 700, a.out))
         IN deltas(punycode_ascii(id.ascii, <<>>))

\* v0.rs 267-293
basic_type(tag) ==
    CASE tag = "b" -> <<"b","o","o","l">>
      [] tag = "c" -> <<"c","h","a","r">>
      [] tag = "e" -> <<"s","t","r">>
      [] tag = "u" -> <<"(",")">>
      [] tag = "a" -> <<"i","8">>
      [] tag = "s" -> <<"i","1","6">>
      [] tag = "l" -> <<"i","3","2">>
      [] tag = "x" -> <<"i","6","4">>
      [] tag = "n" -> <<"i","1","2","8">>
      [] tag = "i" -> <<"i","s","i","z","e">>
      [] tag = "h" -> <<"u","8">>
      [] tag = "t" -> <<"u","1","6">>
      [] tag = "m" -> <<"u","3","2">>
      [] tag = "y" -> <<"u","6","4">>
      [] tag = "o" -> <<"u","1","2","8">>
      [] tag = "j" -> <<"u","s","i","z","e">>
      [] tag = "f" -> <<"f","3","2">>
      [] tag = "d" -> <<"f","6","4">>
      [] tag = "z" -> <<"!">>
      [] tag = "p" -> <<"_">>
      [] tag = "v" -> <<".",".",".">>
      [] OTHER -> <<>>

\* v0.rs 483-488
message(err) ==
    IF err = "Invalid"
    THEN <<"{","i","n","v","a","l","i","d"," ","s","y","n","t","a","x","}">>
    ELSE <<"{","r","e","c","u","r","s","i","o","n"," ","l","i","m","i","t"," ",
           "r","e","a","c","h","e","d","}">>

-----------------------------------------------------------------------------
(* v0.rs: Printer.                                                         *)
(*                                                                         *)
(* A printer is a record:                                                  *)
(*   sym, perr, next, depth  the field `parser`: perr is "ok" (then next   *)
(*                           and depth are the parser's) or the ParseError *)
(*   hasOut, alt, f          the field `out`: Some or None, the            *)
(*                           formatter's alternate flag, the sink          *)
(*   bld                     bound_lifetime_depth                          *)
(*   st                      "run", or how the call in progress ended:     *)
(*                           "fmt" (fmt::Error, carried up by `?`) or      *)
(*                           "panic"                                       *)
(*   ret                     the function in progress has executed         *)
(*                           `return`: the rest of its body is skipped     *)
(*   raised, readLate, late  history: a parse error has been raised; input *)
(*                           was consumed after that; the productions      *)
(*                           entered with the parser in error              *)
(*   live, levels            history: the calls of print_path, print_type  *)
(*                           and print_const in progress that got past     *)
(*                           their push_depth, and the most there were     *)
(*   visits                  history: how often a parser has consumed each *)
(*                           byte of sym                                   *)
(*   followed, nest, nests   history: the backrefs whose target was        *)
(*                           printed, those in progress, and the most      *)
(*                           there were in progress                        *)
(*   refs                    history: the calls of Parser::backref         *)
(*   marks                   history: the parts of the output written      *)
(*                           because the formatter is not alternate        *)
(*   kept, dropped           history: the largest next and depth of the    *)
(*                           parsers that operations returning Ok left or  *)
(*                           made, and of those that failing ones left     *)
(*   pushes, pops            history: the calls of Parser::push_depth by   *)
(*                           parse! and of Printer::pop_depth executed     *)
(*   leaked                  history: a call of print_path, print_type or  *)
(*                           print_const has returned with a parser of     *)
(*                           another depth than the one it was entered with *)
(*   unbound                 history: print_lifetime_from_index has found  *)
(*                           an index over bound_lifetime_depth            *)
(* Overflow checks are on (the test and fuzzing profiles): an arithmetic   *)
(* overflow is a panic.                                                    *)

NewPrinter(s, hasOut, alt, cap) ==
    [sym |-> s, perr |-> "ok", next |-> 0, depth |-> 0,
     hasOut |-> hasOut, alt |-> alt, f |-> NewSink(cap), bld |-> 0,
     st |-> "run", ret |-> FALSE,
     raised |-> FALSE, readLate |-> FALSE, late |-> {},
     live |-> 0, levels |-> 0,
     visits |-> [i \in 1..Len(s) |-> 0], followed |-> 0, nest |-> 0, nests |-> 0,
     refs |-> {}, marks |-> <<>>,
     kept |-> [next |-> 0, depth |-> 0], dropped |-> [next |-> 0, depth |-> 0],
     pushes |-> 0, pops |-> 0, leaked |-> FALSE, unbound |-> FALSE]

Stopped(p) == p.ret \/ p.st # "run"

\* what q has written since p0 was written under `!out.alternate()`
Marked(p0, q) ==
    IF Len(q.f.buf) = Len(p0.f.buf) THEN q
    ELSE [q EXCEPT !.marks = Append(@, [from |-> Len(p0.f.buf), to |-> Len(q.f.buf)])]

\* one more call of Parser::backref: the offset of its `B`, its error and the
\* offset its sub-parser starts at
Referred(refs, m, from, r) ==
    IF m # "backref" THEN refs
    ELSE refs \cup {[at |-> from - 1, err |-> r.err,
                     to |-> IF r.err = "ok" THEN r.x.next ELSE 0 - 1]}

\* the largest next and depth so far, with those of one more parser
Farthest(m, ps) == [next |-> Max(m.next, ps.next), depth |-> Max(m.depth, ps.depth)]

\* the parser an operation left and, after backref, the sub-parser it made
Kept(kept, m, r) ==
    IF m = "backref" THEN Farthest(Farthest(kept, r.ps), r.x) ELSE Farthest(kept, r.ps)

\* the bytes at offsets from .. to - 1 are consumed once more
Visited(visits, from, to) ==
    [i \in DOMAIN visits |-> IF from < i /\ i <= to THEN visits[i] + 1 ELSE visits[i]]

PS(p) == [sym |-> p.sym, next |-> p.next, depth |-> p.depth]

Panic(p) == [p EXCEPT !.st = "panic"]

\* the end of a function or closure body: its caller goes on
Unret(p) == [p EXCEPT !.ret = FALSE]

\* a grammar production returns; one entered with the parser in error is recorded
Fn(name, p0, q) ==
    [q EXCEPT !.ret = FALSE,
              !.live = p0.live,
              !.leaked = @ \/ (/\ name \in {"print_path", "print_type", "print_const"}
                               /\ p0.perr = "ok" /\ q.perr = "ok" /\ q.st = "run"
                               /\ q.depth # p0.depth),
              !.late = IF p0.perr = "ok" THEN @
                       ELSE @ \cup {[prod |-> name,
                                     printing |-> p0.hasOut,
                                     wrote |-> Drop(q.f.buf, Len(p0.f.buf)),
                                     parser |-> q.perr,
                                     st |-> q.st]}]

\* v0.rs 573-578
print(p, x) ==
    [p EXCEPT !.f = IF Stopped(p) \/ ~p.hasOut THEN @ ELSE write_str(@, x),
              !.st = IF Stopped(p) \/ ~p.hasOut THEN @
                     ELSE IF write_str(p.f, x).refused THEN "fmt" ELSE "run"]

\* `$printer.parser = Err(err)`
SetErr(p, err) == [p EXCEPT !.perr = err, !.next = 0, !.depth = 0, !.raised = TRUE]

\* v0.rs 493-500
invalid(p) ==
    LET raise(p1) == IF p1.st # "run" THEN p1
                     ELSE [SetErr(p1, "Invalid") EXCEPT !.ret = TRUE]
    IN IF Stopped(p) THEN p ELSE raise(print(p, message("Invalid")))

\* `self.$method($args)`: the method m of a parser or a printer, by name
RECURSIVE Call(_, _, _)

\* the value of a parse! that returned early is never used
NoValue(m) ==
    CASE m \in {"next", "namespace"} -> NoByte
      [] m = "hex_nibbles" -> <<>>
      [] m = "ident" -> [ascii |-> <<>>, punycode |-> <<>>]
      [] m = "backref" -> [sym |-> <<>>, next |-> 0, depth |-> 0]
      [] m \in {"integer_62", "opt_integer_62", "disambiguator"} -> <<>>
      [] OTHER -> 0

\* a use of the macro parse!
parse(p, m, arg) == Call("parse", p, <<m, arg>>)

\* a parse! that prints the error's message again where it should print `?`
parse_macro_Repeating(p, m, arg) ==
    LET returned(q) == [p |-> q, x |-> NoValue(m)]
        raise(r, p1) == IF p1.st # "run" THEN p1
                        ELSE [SetErr(p1, r.err) EXCEPT !.ret = TRUE]
        called(r) ==
            IF r.err = "ok"
            THEN [p |-> [p EXCEPT !.next = r.ps.next, !.depth = r.ps.depth,
                                  !.readLate = @ \/ (p.raised /\ r.ps.next > p.next),
                                  !.visits = Visited(@, p.next, r.ps.next),
                                  !.live = IF m = "push_depth" THEN @ + 1 ELSE @,
                                  !.levels = IF m = "push_depth" THEN Max(@, p.live + 1)
                                             ELSE @,
                                  !.refs = Referred(@, m, p.next, r),
                                  !.kept = Kept(@, m, r),
                                  !.pushes = IF m = "push_depth" THEN @ + 1 ELSE @],
                  x |-> r.x]
            ELSE returned(IF r.err = "panic" THEN Panic(p)
                          ELSE raise(r, print([p EXCEPT !.next = r.ps.next,
                                                        !.depth = r.ps.depth,
                                                        !.refs = Referred(@, m, p.next, r),
                                                        !.dropped = Farthest(@, r.ps),
                                                        !.pushes = IF m = "push_depth"
                                                                   THEN @ + 1 ELSE @],
                                              message(r.err))))
    IN IF Stopped(p) \/ p.perr # "ok"
       THEN returned(IF Stopped(p) THEN p
                     ELSE [print(p, message(p.perr)) EXCEPT !.ret = TRUE])
       ELSE called(Call(m, PS(p), arg))

\* v0.rs 511-525, the macro parse!: [p, x], with p.ret set when the macro returned
parse_macro(p, m, arg) ==
    LET returned(q) == [p |-> q, x |-> NoValue(m)]
        raise(r, p1) == IF p1.st # "run" THEN p1
                        ELSE [SetErr(p1, r.err) EXCEPT !.ret = TRUE]
        called(r) ==
            IF r.err = "ok"
            THEN [p |-> [p EXCEPT !.next = r.ps.next, !.depth = r.ps.depth,
                                  !.readLate = @ \/ (p.raised /\ r.ps.next > p.next),
                                  !.visits = Visited(@, p.next, r.ps.next),
                                  !.live = IF m = "push_depth" THEN @ + 1 ELSE @,
                                  !.levels = IF m = "push_depth" THEN Max(@, p.live + 1)
                                             ELSE @,
                                  !.refs = Referred(@, m, p.next, r),
                                  !.kept = Kept(@, m, r),
                                  !.pushes = IF m = "push_depth" THEN @ + 1 ELSE @],
                  x |-> r.x]
            ELSE returned(IF r.err = "panic" THEN Panic(p)
                          ELSE raise(r, print([p EXCEPT !.next = r.ps.next,
                                                        !.depth = r.ps.depth,
                                                        !.refs = Referred(@, m, p.next, r),
                                                        !.dropped = Farthest(@, r.ps),
                                                        !.pushes = IF m = "push_depth"
                                                                   THEN @ + 1 ELSE @],
                                              message(r.err))))
    IN IF Stopped(p) \/ p.perr # "ok"
       THEN returned(IF Stopped(p) THEN p ELSE [print(p, <<"?">>) EXCEPT !.ret = TRUE])
       ELSE called(Call(m, PS(p), arg))

\* v0.rs 530-532, `self.parser.as_mut().map(|p| p.eat(b)) == Ok(true)`
Eats(p, b) == ~Stopped(p) /\ p.perr = "ok" /\ peek(PS(p)) = b

\* v0.rs 530-532: [p, x]
Printer_eat(p, b) ==
    [p |-> [p EXCEPT !.next = IF Eats(p, b) THEN @ + 1 ELSE @,
                     !.readLate = @ \/ (p.raised /\ Eats(p, b)),
                     !.visits = IF Eats(p, b) THEN Visited(@, p.next, p.next + 1) ELSE @,
                     !.kept = IF Eats(p, b) THEN Farthest(@, [next |-> p.next + 1,
                                                          depth |-> p.depth])
                              ELSE @],
     x |-> Eats(p, b)]

\* a pop_depth that leaves the depth as it is
pop_depth_Forgetting(p) ==
    [p EXCEPT !.pops = IF Stopped(p) THEN @ ELSE @ + 1]

\* v0.rs 565-569, with 311-313
pop_depth(p) ==
    [p EXCEPT !.st = IF Stopped(p) \/ p.perr # "ok" \/ p.depth > 0 THEN @ ELSE "panic",
              !.depth = IF Stopped(p) \/ p.perr # "ok" \/ p.depth = 0 THEN @ ELSE @ - 1,
              !.pops = IF Stopped(p) THEN @ ELSE @ + 1]

\* `for &c in chars { c.fmt(f)?; }`: the characters that the sink has room
\* for are written, and the one after them is refused
print_chars(p, cs) ==
    LET room == IF p.f.cap = NoCap THEN Len(cs) ELSE Min(Len(cs), p.f.cap - Len(p.f.buf))
    IN IF Stopped(p) \/ ~p.hasOut \/ cs = <<>> THEN p
       ELSE IF room = Len(cs) THEN print(p, cs)
       ELSE print(print(p, Take(cs, room)), <<cs[room + 1]>>)

\* an identifier whose failed decoding is a parse error
print_ident_Poisoning(p, id) ==
    LET ascii(p1) == IF id.ascii # <<>> THEN print(print(p1, id.ascii), <<"-">>) ELSE p1
        decoded(d) ==
            IF d.ok THEN print_chars(p, d.out)
            ELSE IF id.punycode # <<>>
            THEN SetErr(print(print(ascii(print(p, <<"p","u","n","y","c","o","d","e","{">>)),
                                    id.punycode),
                              <<"}">>),
                        "Invalid")
            ELSE print(p, id.ascii)
    IN IF Stopped(p) \/ ~p.hasOut THEN p ELSE decoded(try_small_punycode_decode(id))

\* v0.rs 239-265, reached through print
print_ident(p, id) ==
    LET ascii(p1) == IF id.ascii # <<>> THEN print(print(p1, id.ascii), <<"-">>) ELSE p1
        decoded(d) ==
            IF d.ok THEN print_chars(p, d.out)
            ELSE IF id.punycode # <<>>
            THEN print(print(ascii(print(p, <<"p","u","n","y","c","o","d","e","{">>)),
                             id.punycode),
                       <<"}">>)
            ELSE print(p, id.ascii)
    IN IF Stopped(p) \/ ~p.hasOut THEN p ELSE decoded(try_small_punycode_decode(id))

\* a print_lifetime_from_index that takes an index nothing binds for `'_`
print_lifetime_from_index_Unchecked(p, lt) ==
    LET named(p1, depth) ==
            IF depth < 26 THEN print(p1, <<Lower[depth + 1]>>)
            ELSE print(print(p1, <<"_">>), DecStr(BigOf(depth)))
        quoted(p1) ==
            IF lt = <<>> THEN print(p1, <<"_">>)
            ELSE IF ~BigLess(BigOf(p1.bld), lt) THEN named(p1, p1.bld - Small(lt))
            ELSE print(p1, <<"_">>)
    IN IF Stopped(p) \/ ~p.hasOut THEN p ELSE quoted(print(p, <<"'">>))

\* v0.rs 583-607
print_lifetime_from_index(p, lt) ==
    LET named(p1, depth) ==
            IF depth < 26 THEN print(p1, <<Lower[depth + 1]>>)
            ELSE print(print(p1, <<"_">>), DecStr(BigOf(depth)))
        quoted(p1) ==
            IF lt = <<>> THEN print(p1, <<"_">>)
            ELSE IF ~BigLess(BigOf(p1.bld), lt) THEN named(p1, p1.bld - Small(lt))
            ELSE [Unret(invalid(p1)) EXCEPT !.unbound = TRUE]
    IN IF Stopped(p) \/ ~p.hasOut THEN p ELSE quoted(print(p, <<"'">>))

\* v0.rs 625-631: the loop over the bound lifetimes.  With a sink that never
\* fails nothing but the overflow of bound_lifetime_depth ends a loop of more
\* than U32_MAX - bld rounds, and the rounds before it are not unrolled.
RECURSIVE binder_lifetimes(_, _, _)
binder_lifetimes(p, i, n) ==
    LET deeper(p1) ==
            IF Stopped(p1) THEN p1
            ELSE IF ~FitsU32(BigOf(p1.bld + 1)) THEN Panic(p1)
            ELSE [p1 EXCEPT !.bld = @ + 1]
    IN IF Stopped(p) \/ ~BigLess(BigOf(i), n) THEN p
       ELSE IF p.f.cap = NoCap /\ ~FitsU32(BigAdd(BigOf(p.bld - i), n)) THEN Panic(p)
       ELSE binder_lifetimes(
                Call("print_lifetime_from_index",
                     deeper(IF i > 0 THEN print(p, <<",", " ">>) ELSE p), BigOf(1)),
                i + 1, n)

\* the closure handed to print_backref: [p, x], x the closure's `open`
BackrefTarget(p, f, in_value) ==
    IF f = "print_path_maybe_open_generics" THEN Call(f, p, in_value)
    ELSE [p |-> Call(f, p, in_value), x |-> FALSE]

\* a print_backref that goes on with the parser of its target
print_backref_Keeping(p, f, in_value) ==
    LET target(r) ==
            IF Stopped(r.p) THEN [p |-> Unret(r.p), x |-> FALSE]
            ELSE IF ~r.p.hasOut THEN [p |-> r.p, x |-> FALSE]
            ELSE BackrefTarget([r.p EXCEPT !.next = r.x.next,
                                           !.depth = r.x.depth,
                                           !.followed = @ + 1],
                               f, in_value)
    IN IF Stopped(p) THEN [p |-> p, x |-> FALSE] ELSE target(parse(p, "backref", 0))

\* a print_backref that reads the backref only when it prints
print_backref_Unread(p, f, in_value) ==
    LET restore(r, q) == [p |-> [q.p EXCEPT !.perr = r.p.perr, !.next = r.p.next,
                                            !.depth = r.p.depth, !.nest = r.p.nest],
                          x |-> q.x]
        target(r) ==
            IF Stopped(r.p) THEN [p |-> Unret(r.p), x |-> FALSE]
            ELSE restore(r, BackrefTarget([r.p EXCEPT !.next = r.x.next,
                                                      !.depth = r.x.depth,
                                                      !.followed = @ + 1,
                                                      !.nest = @ + 1,
                                                      !.nests = Max(@, r.p.nest + 1)],
                                          f, in_value))
    IN IF Stopped(p) \/ ~p.hasOut THEN [p |-> p, x |-> FALSE]
       ELSE target(parse(p, "backref", 0))

\* v0.rs 549-563: [p, x]
print_backref(p, f, in_value) ==
    LET restore(r, q) == [p |-> [q.p EXCEPT !.perr = r.p.perr, !.next = r.p.next,
                                            !.depth = r.p.depth, !.nest = r.p.nest],
                          x |-> q.x]
        target(r) ==
            IF Stopped(r.p) THEN [p |-> Unret(r.p), x |-> FALSE]
            ELSE IF ~r.p.hasOut THEN [p |-> r.p, x |-> FALSE]
            ELSE restore(r, BackrefTarget([r.p EXCEPT !.next = r.x.next,
                                                      !.depth = r.x.depth,
                                                      !.followed = @ + 1,
                                                      !.nest = @ + 1,
                                                      !.nests = Max(@, r.p.nest + 1)],
                                          f, in_value))
    IN IF Stopped(p) THEN [p |-> p, x |-> FALSE] ELSE target(parse(p, "backref", 0))

\* a skipping_printing that puts the parser back as well
skipping_printing_Rewinding(p) ==
    LET restored(q) == IF q.st = "fmt" THEN Panic(q)
                       ELSE [q EXCEPT !.hasOut = p.hasOut, !.next = p.next]
    IN IF Stopped(p) THEN p
       ELSE restored(Call("print_path", [p EXCEPT !.hasOut = FALSE], FALSE))

\* v0.rs 537-544, for the closure |this| this.print_path(false)
skipping_printing(p) ==
    LET restored(q) == IF q.st = "fmt" THEN Panic(q) ELSE [q EXCEPT !.hasOut = p.hasOut]
    IN IF Stopped(p) THEN p
       ELSE restored(Call("print_path", [p EXCEPT !.hasOut = FALSE], FALSE))

\* v0.rs 646-659, print_sep_list from its i-th element on: [p, x], x the
\* number of elements
RECURSIVE print_sep_list_from(_, _, _, _)
print_sep_list_from(p, f, sep, i) ==
    LET element(e) ==
            IF e.x THEN [p |-> e.p, x |-> i]
            ELSE print_sep_list_from(Call(f, IF i > 0 THEN print(e.p, sep) ELSE e.p, 0),
                                     f, sep, i + 1)
    IN IF Stopped(p) \/ p.perr # "ok" THEN [p |-> p, x |-> i]
       ELSE element(Printer_eat(p, "E"))

\* str::split('_'): the parts, at least one
RECURSIVE Split(_, _)
Split(s, cur) ==
    IF s = <<>> THEN <<cur>>
    ELSE IF Head(s) = "_" THEN <<cur>> \o Split(Tail(s), <<>>)
    ELSE Split(Tail(s), Append(cur, Head(s)))

\* v0.rs 847-850
RECURSIVE print_abi_parts(_, _)
print_abi_parts(p, parts) ==
    IF parts = <<>> THEN p
    ELSE print_abi_parts(print(print(p, <<"-">>), Head(parts)), Tail(parts))

\* v0.rs 820-867: the closure of the 'F' arm, up to its return
fn_sig(p) ==
    LET checked(a) ==
            [p |-> IF ~Stopped(a.p) /\ (a.x.ascii = <<>> \/ a.x.punycode # <<>>)
                   THEN invalid(a.p) ELSE a.p,
             some |-> TRUE, x |-> a.x.ascii]
        named(c) ==
            IF c.x THEN [p |-> c.p, some |-> TRUE, x |-> <<"C">>]
            ELSE checked(parse(c.p, "ident", 0))
        abi_of(k) ==
            IF k.x THEN named(Printer_eat(k.p, "C"))
            ELSE [p |-> k.p, some |-> FALSE, x |-> <<>>]
        extern(abi, p2) ==
            IF abi.some
            THEN print(print_abi_parts(
                           print(print(p2, <<"e","x","t","e","r","n"," ","\"">>),
                                 Head(Split(abi.x, <<>>))),
                           Tail(Split(abi.x, <<>>))),
                       <<"\"", " ">>)
            ELSE p2
        sig(is_unsafe, abi) ==
            extern(abi, IF is_unsafe THEN print(abi.p, <<"u","n","s","a","f","e"," ">>)
                        ELSE abi.p)
        unsafe(u) == sig(u.x, abi_of(Printer_eat(u.p, "K")))
        output(r) ==
            IF r.x THEN r.p ELSE Call("print_type", print(r.p, <<" ","-",">"," ">>), 0)
    IN output(Printer_eat(
                  print(Call("print_sep_list",
                             print(unsafe(Printer_eat(p, "U")), <<"f","n","(">>),
                             <<"print_type", <<",", " ">> >>).p,
                        <<")">>),
                  "u"))

\* v0.rs 870-873: the closure of the 'D' arm, up to its return
dyn_traits(p) ==
    Call("print_sep_list", p, <<"print_dyn_trait", <<" ","+"," ">> >>).p

\* v0.rs 612-641
in_binder(p, f) ==
    LET \* the closure has returned: v0.rs 637-640
        leave(r, q) ==
            [q EXCEPT !.ret = FALSE,
                      !.st = IF @ # "panic" /\ r.p.hasOut /\ BigLess(BigOf(q.bld), AsU32(r.x))
                             THEN "panic" ELSE @,
                      !.bld = IF q.st = "panic" \/ ~r.p.hasOut
                                 \/ BigLess(BigOf(q.bld), AsU32(r.x))
                              THEN @ ELSE @ - Small(AsU32(r.x))]
        body(r, p1) ==
            IF Stopped(p1) THEN p1
            ELSE leave(r, IF f = "fn_sig" THEN fn_sig(p1) ELSE dyn_traits(p1))
        bound(r) ==
            IF Stopped(r.p) THEN Unret(r.p)
            ELSE body(r, IF r.p.hasOut /\ r.x # <<>>
                         THEN print(binder_lifetimes(print(r.p, <<"f","o","r","<">>),
                                                     0, r.x),
                                    <<">", " ">>)
                         ELSE r.p)
    IN IF Stopped(p) THEN p ELSE bound(parse(p, "opt_integer_62", "G"))

\* a crate root that shows only a disambiguator other than 0
path_crate_Nonzero(p) ==
    LET hashed(dis, p1) ==
            IF p1.hasOut /\ ~p1.alt /\ dis.x # <<>>
            THEN Marked(p1, print(print(print(p1, <<"[">>), HexStr(dis.x)), <<"]">>))
            ELSE p1
        named(dis, name) == hashed(dis, Call("print_ident", name.p, name.x))
        crate(dis) == named(dis, parse(dis.p, "ident", 0))
    IN crate(parse(p, "disambiguator", 0))

\* v0.rs 666-678
path_crate(p) ==
    LET hashed(dis, p1) ==
            IF p1.hasOut /\ ~p1.alt
            THEN Marked(p1, print(print(print(p1, <<"[">>), HexStr(dis.x)), <<"]">>))
            ELSE p1
        named(dis, name) == hashed(dis, Call("print_ident", name.p, name.x))
        crate(dis) == named(dis, parse(dis.p, "ident", 0))
    IN crate(parse(p, "disambiguator", 0))

\* v0.rs 679-722
path_nested(p, in_value) ==
    LET has_name(name) == name.x.ascii # <<>> \/ name.x.punycode # <<>>
        special(dis, name, p5) ==
            print(print(print(IF has_name(name)
                              THEN Call("print_ident", print(p5, <<":">>), name.x) ELSE p5,
                              <<"#">>),
                        DecStr(dis.x)),
                  <<"}">>)
        segment(ns, dis, name) ==
            IF ns.x # NoByte
            THEN special(dis, name,
                         print(print(name.p, <<":",":","{">>),
                               CASE ns.x = "C" -> <<"c","l","o","s","u","r","e">>
                                 [] ns.x = "S" -> <<"s","h","i","m">>
                                 [] OTHER -> <<ns.x>>))
            ELSE IF has_name(name) THEN Call("print_ident", print(name.p, <<":",":">>), name.x)
            ELSE name.p
        named(ns, dis) == segment(ns, dis, parse(dis.p, "ident", 0))
        inner(ns, p1) ==
            IF Stopped(p1) THEN p1
            ELSE named(ns, parse(IF p1.perr # "ok" THEN print(p1, <<":",":">>) ELSE p1,
                                 "disambiguator", 0))
        nested(ns) == inner(ns, Call("print_path", ns.p, in_value))
    IN nested(parse(p, "namespace", 0))

\* v0.rs 723-737
path_impl(p, tag) ==
    LET trait(p2) ==
            IF Stopped(p2) \/ tag = "M" THEN p2
            ELSE Call("print_path", print(p2, <<" ","a","s"," ">>), FALSE)
        self_type(p1) ==
            IF Stopped(p1) THEN p1
            ELSE print(trait(Call("print_type", print(p1, <<"<">>), 0)), <<">">>)
    IN self_type(IF tag # "Y"
                 THEN Call("skipping_printing", parse(p, "disambiguator", 0).p, 0)
                 ELSE p)

\* v0.rs 738-746
path_generic(p, in_value) ==
    LET args(p1) ==
            IF Stopped(p1) THEN p1
            ELSE
            Call("print_sep_list",
                 print(IF in_value THEN print(p1, <<":",":">>) ELSE p1, <<"<">>),
                 <<"print_generic_arg", <<",", " ">> >>).p
    IN print(args(Call("print_path", p, in_value)), <<">">>)

\* v0.rs 661-755
print_path(p, in_value) ==
    LET path(t) ==
            CASE t.x = "C" -> path_crate(t.p)
              [] t.x = "N" -> path_nested(t.p, in_value)
              [] t.x \in {"M", "X", "Y"} -> path_impl(t.p, t.x)
              [] t.x = "I" -> path_generic(t.p, in_value)
              [] t.x = "B" -> Call("print_backref", t.p, <<"print_path", in_value>>).p
              [] OTHER -> invalid(t.p)
    IN IF Stopped(p) THEN p
       ELSE Fn("print_path", p,
               pop_depth(path(parse(parse(p, "push_depth", 0).p, "next", 0))))

\* v0.rs 757-766
print_generic_arg(p) ==
    LET lifetime(lt) == Call("print_lifetime_from_index", lt.p, lt.x)
        other(k) == IF k.x THEN Call("print_const", k.p, 0) ELSE Call("print_type", k.p, 0)
        arg(l) == IF l.x THEN lifetime(parse(l.p, "integer_62", 0))
                  ELSE other(Printer_eat(l.p, "K"))
    IN IF Stopped(p) THEN p ELSE Fn("print_generic_arg", p, arg(Printer_eat(p, "L")))

\* v0.rs 778-791
type_ref(p, tag) ==
    LET pointee(p2) ==
            Call("print_type", IF tag # "R" THEN print(p2, <<"m","u","t"," ">>) ELSE p2, 0)
        lifetime(lt) ==
            IF lt.x # <<>> THEN print(Call("print_lifetime_from_index", lt.p, lt.x), <<" ">>)
            ELSE lt.p
        ref(l) == pointee(lifetime(IF l.x THEN parse(l.p, "integer_62", 0)
                                   ELSE [p |-> l.p, x |-> <<>>]))
    IN ref(Printer_eat(print(p, <<"&">>), "L"))

\* v0.rs 793-801
type_ptr(p, tag) ==
    Call("print_type",
         print(print(p, <<"*">>),
               IF tag # "P" THEN <<"m","u","t"," ">> ELSE <<"c","o","n","s","t"," ">>),
         0)

\* v0.rs 803-811
type_array(p, tag) ==
    LET len(p1) == IF Stopped(p1) \/ tag # "A" THEN p1
                   ELSE Call("print_const", print(p1, <<";", " ">>), 0)
    IN print(len(Call("print_type", print(p, <<"[">>), 0)), <<"]">>)

\* v0.rs 812-819
type_tuple(p) ==
    LET close(l) == print(IF l.x = 1 THEN print(l.p, <<",">>) ELSE l.p, <<")">>)
    IN close(Call("print_sep_list", print(p, <<"(">>), <<"print_type", <<",", " ">> >>))

\* v0.rs 868-883
type_dyn(p) ==
    LET lifetime(lt) ==
            IF lt.x # <<>>
            THEN Call("print_lifetime_from_index", print(lt.p, <<" ","+"," ">>), lt.x)
            ELSE lt.p
        bound(l) == IF ~l.x THEN invalid(l.p) ELSE lifetime(parse(l.p, "integer_62", 0))
        traits(p1) == IF Stopped(p1) THEN p1 ELSE bound(Printer_eat(p1, "L"))
    IN traits(Call("in_binder", print(p, <<"d","y","n"," ">>), "dyn_traits"))

\* v0.rs 768-896
print_type(p) ==
    LET pushed(tag, d) ==
            CASE tag \in {"R", "Q"} -> type_ref(d.p, tag)
              [] tag \in {"P", "O"} -> type_ptr(d.p, tag)
              [] tag \in {"A", "S"} -> type_array(d.p, tag)
              [] tag = "T" -> type_tuple(d.p)
              [] tag = "F" -> Call("in_binder", d.p, "fn_sig")
              [] tag = "D" -> type_dyn(d.p)
              [] tag = "B" -> Call("print_backref", d.p, <<"print_type", FALSE>>).p
              [] OTHER -> IF Stopped(d.p) THEN d.p
                          ELSE Call("print_path", [d.p EXCEPT !.next = @ - 1], FALSE)
        type(t) ==
            IF ~Stopped(t.p) /\ basic_type(t.x) # <<>> THEN print(t.p, basic_type(t.x))
            ELSE pop_depth(pushed(t.x, parse(t.p, "push_depth", 0)))
    IN IF Stopped(p) THEN p ELSE Fn("print_type", p, type(parse(p, "next", 0)))

\* v0.rs 903-922: [p, x], x whether the `<` was left open
print_path_maybe_open_generics(p) ==
    LET path(b, i) ==
            IF b.x THEN Call("print_backref", b.p, <<"print_path_maybe_open_generics", FALSE>>)
            ELSE IF i.x
            THEN [p |-> Call("print_sep_list",
                             print(Call("print_path", i.p, FALSE), <<"<">>),
                             <<"print_generic_arg", <<",", " ">> >>).p,
                  x |-> TRUE]
            ELSE [p |-> Call("print_path", i.p, FALSE), x |-> FALSE]
        done(r) == [p |-> Fn("print_path_maybe_open_generics", p, r.p), x |-> r.x]
        eaten(b) == done(path(b, Printer_eat(b.p, "I")))
    IN IF Stopped(p) THEN [p |-> p, x |-> FALSE] ELSE eaten(Printer_eat(p, "B"))

\* v0.rs 927-939: the loop over the bindings; [p, x], x is `open`
RECURSIVE dyn_trait_bindings(_, _)
dyn_trait_bindings(p, open) ==
    LET named(name) ==
            Call("print_type", print(Call("print_ident", name.p, name.x), <<" ","="," ">>), 0)
        binding(e) ==
            IF ~e.x THEN [p |-> p, x |-> open]
            ELSE dyn_trait_bindings(
                     named(parse(print(e.p, IF ~open THEN <<"<">> ELSE <<",", " ">>),
                                 "ident", 0)),
                     TRUE)
    IN binding(Printer_eat(p, "p"))

\* v0.rs 924-946
print_dyn_trait(p) ==
    LET close(b) == IF b.x THEN print(b.p, <<">">>) ELSE b.p
        bindings(o) == close(dyn_trait_bindings(o.p, o.x))
    IN IF Stopped(p) THEN p
       ELSE Fn("print_dyn_trait", p, bindings(Call("print_path_maybe_open_generics", p, 0)))

\* the value of the nibbles
RECURSIVE HexValue(_, _)
HexValue(hex, v) ==
    LET shifted == BigAdd(BigMul(v, 16), BigOf(Ord(Head(hex), HexDigits)))
    IN IF hex = <<>> THEN v
       ELSE IF shifted = <<>> THEN HexValue(Tail(hex), <<>>)
       ELSE HexValue(Tail(hex), shifted)

\* v0.rs 994-1008
print_const_uint(p) ==
    LET uint(hex) ==
            Unret(IF Len(hex.x) > 16 THEN print(print(hex.p, <<"0","x">>), hex.x)
                  ELSE print(hex.p, DecStr(HexValue(hex.x, <<>>))))
    IN IF Stopped(p) THEN p ELSE uint(parse(p, "hex_nibbles", 0))

\* v0.rs 1010-1016
print_const_int(p) ==
    LET int(n) == print_const_uint(IF n.x THEN print(n.p, <<"-">>) ELSE n.p)
    IN int(Printer_eat(p, "n"))

\* v0.rs 1018-1024
print_const_bool(p) ==
    LET bool(hex) ==
            Unret(IF Stopped(hex.p) THEN hex.p
                  ELSE IF hex.x = <<"0">> THEN print(hex.p, <<"f","a","l","s","e">>)
                  ELSE IF hex.x = <<"1">> THEN print(hex.p, <<"t","r","u","e">>)
                  ELSE invalid(hex.p))
    IN IF Stopped(p) THEN p ELSE bool(parse(p, "hex_nibbles", 0))

\* U+0060, which the lexer of strings cannot take literally
Grave == "x60"

\* the characters U+0020 .. U+007E
AsciiPrintable == <<
    " ","!","\"","#","$","%","&","'","(",")","*","+",",","-",".","/",
    "0","1","2","3","4","5","6","7","8","9",":",";","<","=",">","?",
    "@","A","B","C","D","E","F","G","H","I","J","K","L","M","N","O",
    "P","Q","R","S","T","U","V","W","X","Y","Z","[","\\","]","^","_",
    Grave,"a","b","c","d","e","f","g","h","i","j","k","l","m","n","o",
    "p","q","r","s","t","u","v","w","x","y","z","{","|","}","~">>

\* <char as fmt::Debug>::fmt.  Outside ASCII the C1 controls are escaped and
\* every other scalar value is taken to be printable.
DebugChar(v) ==
    <<"'">> \o
    (CASE v = 0 -> <<"\\","0">>
       [] v = 9 -> <<"\\","t">>
       [] v = 10 -> <<"\\","n">>
       [] v = 13 -> <<"\\","r">>
       [] v = 39 -> <<"\\","'">>
       [] v = 92 -> <<"\\","\\">>
       [] v >= 32 /\ v <= 126 -> <<AsciiPrintable[v - 31]>>
       [] v < 32 \/ (v >= 127 /\ v <= 159) ->
              <<"\\","u","{">> \o HexStr(BigOf(v)) \o <<"}">>
       [] OTHER -> <<Scalar(v)>>) \o
    <<"'">>

\* v0.rs 1026-1046
print_const_char(p) ==
    LET char(hex, v) ==
            Unret(IF Stopped(hex.p) THEN hex.p
                  ELSE IF Len(hex.x) > 8 THEN invalid(hex.p)
                  ELSE IF IsScalarValue(v) THEN print(hex.p, DebugChar(Small(v)))
                  ELSE invalid(hex.p))
        nibbles(hex) == char(hex, HexValue(hex.x, <<>>))
    IN IF Stopped(p) THEN p ELSE nibbles(parse(p, "hex_nibbles", 0))

\* a const whose type follows its value with nothing in between
const_value_Suffixed(p, ty_tag) ==
    LET typed(p1) ==
            IF Stopped(p1) \/ ~p1.hasOut \/ p1.alt THEN p1
            ELSE IF basic_type(ty_tag) = <<>> THEN Panic(p1)
            ELSE Marked(p1, print(p1, basic_type(ty_tag)))
    IN typed(CASE ty_tag \in {"h","t","m","y","o","j"} -> print_const_uint(p)
               [] ty_tag \in {"a","s","l","x","n","i"} -> print_const_int(p)
               [] ty_tag = "b" -> print_const_bool(p)
               [] ty_tag = "c" -> print_const_char(p)
               [] OTHER -> invalid(p))

\* v0.rs 968-988: the value and its type
const_value(p, ty_tag) ==
    LET typed(p1) ==
            IF Stopped(p1) \/ ~p1.hasOut \/ p1.alt THEN p1
            ELSE IF basic_type(ty_tag) = <<>> THEN Panic(p1)
            ELSE Marked(p1, print(print(p1, <<":", " ">>), basic_type(ty_tag)))
    IN typed(CASE ty_tag \in {"h","t","m","y","o","j"} -> print_const_uint(p)
               [] ty_tag \in {"a","s","l","x","n","i"} -> print_const_int(p)
               [] ty_tag = "b" -> print_const_bool(p)
               [] ty_tag = "c" -> print_const_char(p)
               [] OTHER -> invalid(p))

\* a print_const whose placeholder returns without its pop_depth
print_const_Leaking(p) ==
    LET typed(ty) ==
            IF ~Stopped(ty.p) /\ ty.x = "p"
            THEN [print(ty.p, <<"_">>) EXCEPT !.ret = TRUE]
            ELSE const_value(ty.p, ty.x)
        value(b) ==
            IF b.x THEN Call("print_backref", b.p, <<"print_const", FALSE>>).p
            ELSE typed(parse(b.p, "next", 0))
    IN IF Stopped(p) THEN p
       ELSE Fn("print_const", p,
               pop_depth(value(Printer_eat(parse(p, "push_depth", 0).p, "B"))))

\* v0.rs 948-992
print_const(p) ==
    LET typed(ty) ==
            IF ~Stopped(ty.p) /\ ty.x = "p" THEN print(ty.p, <<"_">>)
            ELSE const_value(ty.p, ty.x)
        value(b) ==
            IF b.x THEN Call("print_backref", b.p, <<"print_const", FALSE>>).p
            ELSE typed(parse(b.p, "next", 0))
    IN IF Stopped(p) THEN p
       ELSE Fn("print_const", p,
               pop_depth(value(Printer_eat(parse(p, "push_depth", 0).p, "B"))))

\* the methods of Parser (self is a parser) and of Printer (self is a printer)
Call(m, self, arg) ==
    CASE m = "push_depth" -> push_depth(self)
      [] m = "next" -> next(self)
      [] m = "hex_nibbles" -> hex_nibbles(self)
      [] m = "integer_62" -> integer_62(self)
      [] m = "opt_integer_62" -> opt_integer_62(self, arg)
      [] m = "disambiguator" -> disambiguator(self)
      [] m = "namespace" -> namespace(self)
      [] m = "backref" -> backref(self)
      [] m = "ident" -> ident(self)
      [] m = "parse" -> parse_macro(self, arg[1], arg[2])
      [] m = "print_ident" -> print_ident(self, arg)
      [] m = "print_lifetime_from_index" -> print_lifetime_from_index(self, arg)
      [] m = "print_backref" -> print_backref(self, arg[1], arg[2])
      [] m = "skipping_printing" -> skipping_printing(self)
      [] m = "print_sep_list" -> print_sep_list_from(self, arg[1], arg[2], 0)
      [] m = "in_binder" -> in_binder(self, arg)
      [] m = "print_path" -> print_path(self, arg)
      [] m = "print_generic_arg" -> print_generic_arg(self)
      [] m = "print_type" -> print_type(self)
      [] m = "print_path_maybe_open_generics" -> print_path_maybe_open_generics(self)
      [] m = "print_dyn_trait" -> print_dyn_trait(self)
      [] m = "print_const" -> print_const(self)

(***************************************************************************)
(* v0: demangle and Display                                                *)
(***************************************************************************)

\* v0.rs 41-52: the symbol without its prefix, <<>> when there is none
v0_inner(s) ==
    IF Len(s) > 2 /\ StartsWith(s, <<"_", "R">>) THEN Drop(s, 2)
    ELSE IF Len(s) > 1 /\ StartsWith(s, <<"R">>) THEN Drop(s, 1)
    ELSE IF Len(s) > 3 /\ StartsWith(s, <<"_", "_", "R">>) THEN Drop(s, 3)
    ELSE <<>>

\* a dry parse that starts over at the first path
try_parse_path_FromStart(inner, at, d) ==
    LET expect(q) == IF q.st = "fmt" THEN Panic(q) ELSE q
    IN expect(Call("print_path",
                   [NewPrinter(inner, FALSE, FALSE, NoCap) EXCEPT !.next = 0, !.depth = d],
                   FALSE))

\* v0.rs 66-76: the printer after the dry parse of one path;
\* st = "panic" is the `expect` firing
try_parse_path(inner, at, d) ==
    LET expect(q) == IF q.st = "fmt" THEN Panic(q) ELSE q
    IN expect(Call("print_path",
                   [NewPrinter(inner, FALSE, FALSE, NoCap) EXCEPT !.next = at, !.depth = d],
                   FALSE))

\* v0.rs 36-90: res is "ok", a ParseError or "panic"
v0_demangle(s) ==
    LET bad(e) == [res |-> e, inner |-> <<>>, rest |-> <<>>, first |-> 0]
        parsed(inner, q1, q2) ==
            IF q2.st = "panic" THEN bad("panic")
            ELSE IF q2.perr # "ok" THEN bad(q2.perr)
            ELSE [res |-> "ok", inner |-> inner,
                  rest |-> Drop(inner, q2.next), first |-> q1.next]
        instantiating(inner, q1) ==
            IF q1.st = "panic" THEN bad("panic")
            ELSE IF q1.perr # "ok" THEN bad(q1.perr)
            ELSE parsed(inner, q1,
                        IF q1.next < Len(inner) /\ IsUpper(inner[q1.next + 1])
                        THEN try_parse_path(inner, q1.next, q1.depth) ELSE q1)
        path(inner) ==
            IF inner = <<>> THEN bad("Invalid")
            ELSE IF ~IsUpper(inner[1]) THEN bad("Invalid")
            ELSE IF \E i \in 1..Len(inner) : ~IsAscii(inner[i]) THEN bad("Invalid")
            ELSE instantiating(inner, try_parse_path(inner, 0, 0))
    IN path(v0_inner(s))

\* v0.rs 92-105: the printer when Display returns
v0_fmt(inner, alt, cap) == Call("print_path", NewPrinter(inner, TRUE, alt, cap), TRUE)

-----------------------------------------------------------------------------
(* The library surface: demangle, try_demangle and the Display of their    *)
(* handle.  Their source (lib.rs) is not among the sources at hand; they   *)
(* are written after sections 3, 4.A, 6 and 7 of the specification.        *)

SuffixBytes == Range(Dec) \cup Range(Lower) \cup Range(Upper) \cup {".", "_", "@", "$"}

\* a suffix: empty, or from a `.` on and made of suffix bytes only
IsSuffix(t) == t = <<>> \/ (t[1] = "." /\ \A i \in 1..Len(t) : t[i] \in SuffixBytes)

\* the envelope recognizer: v0, then legacy, otherwise the inert handle
demangle(s) ==
    LET handle(v, l) ==
            IF v.res = "ok" /\ IsSuffix(v.rest)
            THEN [style |-> "v0", original |-> s, inner |-> v.inner,
                  elements |-> 0, suffix |-> v.rest]
            ELSE IF l.ok
            THEN [style |-> "legacy", original |-> s, inner |-> l.inner,
                  elements |-> l.elements, suffix |-> <<>>]
            ELSE [style |-> "unknown", original |-> s, inner |-> <<>>,
                  elements |-> 0, suffix |-> <<>>]
    IN handle(v0_demangle(s), legacy_demangle(s))

try_demangle(s) ==
    LET checked(h) == [ok |-> h.style # "unknown", handle |-> h]
    IN checked(demangle(s))

\* a Display that shows the stripped symbol of a handle it did not recognize
Demangle_fmt_Stripped(h, alt, f) ==
    LWrite([f |-> f, st |-> "run"],
           IF h.style = "unknown" /\ Len(h.original) > 1 THEN Tail(h.original)
           ELSE h.original)

\* Display of the handle: [f, st]
Demangle_fmt(h, alt, f) ==
    LET v0(q) == [f |-> q.f, st |-> q.st]
        suffix(w) == IF w.st # "run" \/ h.suffix = <<>> THEN w ELSE LWrite(w, h.suffix)
    IN suffix(CASE h.style = "v0" -> v0(v0_fmt(h.inner, alt, f.cap))
                [] h.style = "legacy" ->
                       legacy_fmt([ok |-> TRUE, inner |-> h.inner,
                                   elements |-> h.elements],
                                  alt, f)
                [] OTHER -> LWrite([f |-> f, st |-> "run"], h.original))

-----------------------------------------------------------------------------
(* The inputs *)

\* the bytes of an ASCII string
Bytes(str) == [i \in 1..Len(str) |-> SubSeq(str, i, i)]

\* the longest body that is enumerated exhaustively
MaxLen == 4
\* the largest capacity of a bounded sink
MaxCap == 6

LegacyAlphabet == {"0", "1", "2", "h", "a"}
V0Alphabet == {"M", "C", "0", "B", "_"}

RECURSIVE Words(_, _)
Words(alphabet, n) ==
    IF n = 0 THEN {<<>>}
    ELSE LET shorter == Words(alphabet, n - 1)
         IN shorter \cup {Append(w, c) : w \in {x \in shorter : Len(x) = n - 1},
                                         c \in alphabet}

RECURSIVE Repeated(_, _)
Repeated(str, n) == IF n = 0 THEN "" ELSE str \o Repeated(str, n - 1)

\* v0.rs 1206-1214: generic arguments side by side, twice as many as MAX_DEPTH
Siblings(leaf) == "_RIC0p" \o Repeated(leaf, 2 * MAX_DEPTH) \o "E"

\* an identifier that decodes to SMALL_PUNYCODE_LEN + 1 characters
LongIdent ==
    "_RNvCu130" \o "aaaaaaaaaaaaaaaaaaaaaaaaaaaaaaaaaaaaaaaaaaaaaaaaaaaaaaaaaaaaaaaa"
                \o "aaaaaaaaaaaaaaaaaaaaaaaaaaaaaaaaaaaaaaaaaaaaaaaaaaaaaaaaaaaaaaaa"
                \o "_a1x"

\* an identifier that decodes to SMALL_PUNYCODE_LEN characters
FullIdent ==
    "_RNvCu129" \o "aaaaaaaaaaaaaaaaaaaaaaaaaaaaaaaaaaaaaaaaaaaaaaaaaaaaaaaaaaaaaaaa"
                \o "aaaaaaaaaaaaaaaaaaaaaaaaaaaaaaaaaaaaaaaaaaaaaaaaaaaaaaaaaaaaaaa"
                \o "_a1x"

LegacyCorpus == {
    "_ZN4testE", "ZN4testE", "__ZN4testE", "_ZN4test", "_ZNE", "_ZN",
    "_ZN3foo17h05af221e174051e9E", "_ZN3foo1hE", "_ZN1h3fooE", "_ZN2h12h2E",
    "_ZN3foo0E", "_ZN0E", "_ZN03fooE", "_ZN3foo4E", "_ZN3fooE.llvm.9D1C9369",
    "_ZN2222222222222222222222EE", "_ZN18446744073709551616aE",
    "_ZN13test$u20$test4foobE", "_ZN12test$BP$test4foobE", "_ZN13_$LT$test$GT$E",
    "_ZN6_$C$$E", "_ZN5$XY$a1bE", "_ZN8test..dfE", "_ZN3a.b2_$E", "_ZN10$SP$$u22$.E",
    "_ZN2_a5$u7e$E", "_ZN4$RP$3$C$E" }

V0Corpus == {
    "_RNvC6_123foo3bar", "RNvC1a1b", "__RNvC1a1b", "_R", "_RC", "R", "",
    "_RNvC6_123foo3bar.i", "_RNvC1a1b.llvm.A5", "_RNvC1a1b$x", "_RNvC1a1bC1c", "_RC1aC",
    "_RNCNCNgCs6DXkGYLi8lr_2cc5spawn00B5_", "_RNSC0Cs_1as0_1b",
    "_RNqCs4fqI2P2rA04_11utf8_identsu30____7hkackfecea1cbdathfdh9hlq6y",
    "_RMC0INtC8arrayvec8ArrayVechKj7b_E", "_RINvC0C0Kb1_Kb2_Kc27_Kc110000_Kin7b_KpE",
    "_RINvC0C0Ko10000000000000000f_Kh_E", "_RNqC0u3a_a", "_RNqC0u5ab_kf", "_RNqC0u2_A",
    "_RNvNvB0_1x1y", "_RNvNvB_1x1y", "_RNvNvB1_1x1y", "_RMC0TBzzzzzzzzzzzz_E",
    "_RMC0DIC1aL0_EEL_", "_RMC5DC0pZB2_", "_RMC0DC1tp1AhEL_", "_RMC0DG_C1tC1uEL0_",
    "_RIC2C8B2_EC5hello", "_RIC2TuB2_E", "_RMC0FGzzzzzz_Eu",
    "_RMC0FG0_UKCRL0_hQL1_eEPu", "_RMC0FK5a_b_cEOh", "_RMC0FKu3_aEu", "_RMC0TAhj3_ShE",
    "_RMC0RRRRh", "_RMC0RRRRRh", "_RMC0RRRRRRh", "_RXC0hC1t", "_RYhC1t", "_RXsz_C0RL_uC1t",
    "_RMC0INtC0C0BzEE", "_RMC0B3_", "_RINvC0C0L0_E", "_RMC0FG_FG_RL1_RL0_uEuEu",
    "_RMC0TRL0_hE", "_RMC0TFG_RL0_hEuB6_RL0_hE", "_RIC8RRRRRRRRB2_E",
    "_RIC0uB2_B3_B6_B9_Bc_E", "_RMC0TuB3_B3_B3_B3_B3_B3_B3_B3_B3_E",
    "_RMC0TTTpB5_EB4_EB3_E", "_RINvC3Bz_1xB4_E", "_RMC0B2_",
    "_RIC0Kb0_Kb1_Kin7b_KpKc76_E", "_RIC0Kb2_E", "_RIC0Kb_E", "_RIC0Kc110000_E",
    "_RIC0Kcd800_E", "_RIC0Kc123456789_E", "_RIC0Ko10000000000000000f_Kh_E",
    "_RIC0Kca_Kc27_Kc7f_E", "_RIC0Kan0_Kyffffffffffffffff_E", "_RIC0Kz0_E",
    "_RIC0KhG_E", "_RIC3b2_KB2_E", "_RC4Kb2_", "_RC3Kb_", "_RC8Kc110000_",
    "_RC7Kcd800_", "_RC12Kc123456789_", "_RC4Kz0_",
    "_RNvNqC0u1A1x", "_RNvNqC0u1z1x", "_RNvNqC0u4x_1z1x", "_RNvNqC0u4ib9b1x",
    "_RNvNqC0u20zzzzzzzzzzzzzzzzzzzz1x",
    "_RNvNqC0u20_9999999999999999999a1x", "_RNvNqC0u3_9a1x",
    "_RNvCslYGhA16ahyf_1a1b", "_RNvCslYGhA16ahye_1a1b", "_RNvCslYGhA16ahyd_1a1b",
    "_RC18446744073709551616a", "_RC18446744073709551615a", "_RC9a", "_RIC0KpRhC1aE",
    "_RMC0DIC1thEp1AhEL_", "_RMC0DC1tp1Ahp1BeEL_", "_RMC0DIC1tEp1AhEL_", "_RMC0DIC1tEEL_",
    "_RMC1tDB0_p1AhEL_", "_RMIC1thEDB0_p1AhEL_", "_RMC0FG0_RL3_uEu",
    Siblings("p"), Siblings("Rp"), Siblings("C1x"), LongIdent, FullIdent }

Inputs ==
    LET corpus == {Bytes(c) : c \in LegacyCorpus \cup V0Corpus}
    IN \* every symbol of the corpus and every truncation of one
       UNION {{Take(c, n) : n \in 0..Len(c)} : c \in corpus} \cup
       \* bytes with bit 7 set, where the recognizers look for them
       { <<"_","Z","N","2","xD2","x93","E">>, <<"_","R","C","2","xD2","x93">>,
         <<"_","R","xD2","x93">>, <<"xD2","x93">> } \cup
       \* every short body in the two envelopes
       {<<"_","Z","N">> \o w \o <<"E">> : w \in Words(LegacyAlphabet, MaxLen)} \cup
       {<<"_","R">> \o w : w \in Words(V0Alphabet, MaxLen)}

\* the capacities of the sinks handed to Display
Caps == 0..MaxCap \cup {NoCap}

-----------------------------------------------------------------------------
(* The state machine: one input, one of the entry points applied to it,    *)
(* then one Display of the result with a mode and a sink.                  *)

None == [none |-> TRUE]

Init ==
    /\ sym \in Inputs
    /\ pc = "start"
    /\ dem = None
    /\ shown = None

\* legacy::demangle(sym)
LegacyDemangle ==
    /\ pc = "start"
    /\ pc' = "legacy"
    /\ dem' = legacy_demangle(sym)
    /\ UNCHANGED <<sym, shown>>

\* <legacy::Demangle as Display>::fmt, `{}` or `{:#}`, into a sink of capacity cap
LegacyDisplay ==
    /\ pc = "legacy"
    /\ dem.ok
    /\ \E alt \in BOOLEAN, cap \in Caps :
           shown' = [alt |-> alt, cap |-> cap, w |-> legacy_fmt(dem, alt, NewSink(cap))]
    /\ pc' = "legacy_shown"
    /\ UNCHANGED <<sym, dem>>

\* v0::demangle(sym)
V0Demangle ==
    /\ pc = "start"
    /\ pc' = "v0"
    /\ dem' = v0_demangle(sym)
    /\ UNCHANGED <<sym, shown>>

\* <v0::Demangle as Display>::fmt
V0Display ==
    /\ pc = "v0"
    /\ dem.res = "ok"
    /\ \E alt \in BOOLEAN, cap \in Caps :
           shown' = [alt |-> alt, cap |-> cap, p |-> v0_fmt(dem.inner, alt, cap)]
    /\ pc' = "v0_shown"
    /\ UNCHANGED <<sym, dem>>

\* try_demangle(sym)
TryDemangle ==
    /\ pc = "start"
    /\ pc' = "try"
    /\ dem' = try_demangle(sym)
    /\ UNCHANGED <<sym, shown>>

\* demangle(sym)
Demangle ==
    /\ pc = "start"
    /\ pc' = "top"
    /\ dem' = demangle(sym)
    /\ UNCHANGED <<sym, shown>>

\* Display of the handle
Display ==
    /\ pc = "top"
    /\ \E alt \in BOOLEAN, cap \in Caps :
           shown' = [alt |-> alt, cap |-> cap, w |-> Demangle_fmt(dem, alt, NewSink(cap))]
    /\ pc' = "top_shown"
    /\ UNCHANGED <<sym, dem>>

Next ==
    \/ LegacyDemangle
    \/ LegacyDisplay
    \/ V0Demangle
    \/ V0Display
    \/ TryDemangle
    \/ Demangle
    \/ Display

Spec == Init /\ [][Next]_vars

-----------------------------------------------------------------------------
(* The claims *)

\* neither recognizer accepts s
Unrecognized(s) == ~legacy_demangle(s).ok /\ v0_demangle(s).res # "ok"

\* the whole of s is written to a sink of capacity cap, or the sink refuses
Written(w, cap, s) ==
    IF cap = NoCap \/ Len(s) <= cap THEN w.st = "run" /\ w.f.buf = s
    ELSE w.st = "fmt"

C2_NoPanic ==
    /\ pc = "v0" => dem.res # "panic"
    /\ pc = "v0_shown" => shown.p.st # "panic"
    /\ pc = "legacy_shown" => shown.w.st # "panic"

-----------------------------------------------------------------------------
(* Legacy symbols as the specification describes them *)

\* the decimal number a digit string spells, saturating at limit + 1
RECURSIVE DecValue(_, _, _)
DecValue(ds, acc, limit) ==
    IF ds = <<>> \/ acc > limit THEN Min(acc, limit + 1)
    ELSE DecValue(Tail(ds), acc * 10 + Ord(Head(ds), Dec), limit)

\* the number of decimal digits s starts with
RECURSIVE LeadingDigits(_)
LeadingDigits(s) ==
    IF s # <<>> /\ IsDec(Head(s)) THEN 1 + LeadingDigits(Tail(s)) ELSE 0

\* the length the next element of s announces
ElementLen(s) == DecValue(Take(s, LeadingDigits(s)), 0, Len(s))

\* the elements at the front of an interior: a greedily read length N >= 1
\* and N bytes, as long as there is one
RECURSIVE Elements(_)
Elements(s) ==
    IF ElementLen(s) = 0 \/ LeadingDigits(s) + ElementLen(s) > Len(s) THEN <<>>
    ELSE <<SubSeq(s, LeadingDigits(s) + 1, LeadingDigits(s) + ElementLen(s))>> \o
         Elements(Drop(s, LeadingDigits(s) + ElementLen(s)))

\* what follows the elements at the front of an interior
RECURSIVE LeftOver(_)
LeftOver(s) ==
    IF ElementLen(s) = 0 \/ LeadingDigits(s) + ElementLen(s) > Len(s) THEN s
    ELSE LeftOver(Drop(s, LeadingDigits(s) + ElementLen(s)))

\* the escapes of the specification: the name between the two `$`, the character
EscapeTable == <<
    <<"SP", "@">>, <<"BP", "*">>, <<"RF", "&">>, <<"LT", "<">>, <<"GT", ">">>,
    <<"LP", "(">>, <<"RP", ")">>, <<"C", ",">>, <<"u7e", "~">>, <<"u20", " ">>,
    <<"u27", "'">>, <<"u3d", "=">>, <<"u5b", "[">>, <<"u5d", "]">>, <<"u7b", "{">>,
    <<"u7d", "}">>, <<"u3b", ";">>, <<"u2b", "+">>, <<"u21", "!">>, <<"u22", "\"">> >>

EscapeSeq(k) == <<"$">> \o Bytes(EscapeTable[k][1]) \o <<"$">>

\* the escapes s starts with
EscapesAt(s) == {k \in 1..Len(EscapeTable) : StartsWith(s, EscapeSeq(k))}

\* an element decoded left to right
RECURSIVE DecodedFrom(_)
DecodedFrom(e) ==
    IF e = <<>> THEN <<>>
    ELSE IF StartsWith(e, <<".", ".">>) THEN <<":", ":">> \o DecodedFrom(Drop(e, 2))
    ELSE IF Head(e) = "$"
    THEN IF EscapesAt(e) = {} THEN e
         ELSE LET k == CHOOSE k \in EscapesAt(e) : TRUE
              IN <<EscapeTable[k][2]>> \o DecodedFrom(Drop(e, Len(EscapeSeq(k))))
    ELSE <<Head(e)>> \o DecodedFrom(Tail(e))

Decoded(e) == DecodedFrom(IF StartsWith(e, <<"_", "$">>) THEN Tail(e) ELSE e)

\* decoded elements joined by `::`
RECURSIVE Joined(_)
Joined(es) ==
    IF es = <<>> THEN <<>>
    ELSE IF Len(es) = 1 THEN Decoded(es[1])
    ELSE Decoded(es[1]) \o <<":", ":">> \o Joined(Tail(es))

\* C3: the normal-mode Display of an accepted legacy symbol writes its
\* elements in input order, joined by `::`, each decoded left to right:
\* leading `_` of `_$` dropped, `..` to `::`, `.` kept, the escapes of the
\* table to their characters, the rest of the element verbatim from an
\* unrecognized `$` on, every other byte copied.
C3_LegacyDecoding ==
    pc = "legacy_shown" /\ ~shown.alt =>
        /\ shown.cap = NoCap => shown.w.st = "run"
        /\ shown.w.st = "run" => shown.w.f.buf = Joined(Elements(dem.inner))

\* C3 happens: an element with an unrecognized `$` sequence and one after it
C3_Witness ==
    /\ pc = "legacy_shown"
    /\ sym = Bytes("_ZN5$XY$a1bE")
    /\ ~shown.alt
    /\ shown.w.st = "run"
    /\ shown.w.f.buf = Bytes("$XY$a::b")

\* `h` followed by one or more ASCII hex digits
IsHashElement(e) == Len(e) >= 2 /\ e[1] = "h" /\ \A i \in 2..Len(e) : IsHex(e[i])

\* the elements a mode prints
Printed(es, alt) ==
    IF alt /\ es # <<>> /\ IsHashElement(es[Len(es)]) THEN Take(es, Len(es) - 1) ELSE es

\* C4: alternate mode leaves out the last element, and the `::` before it,
\* exactly when it is `h` followed by one or more hex digits; normal mode
\* prints every element, and so do both modes for such an element elsewhere.
C4_HashOmitted ==
    pc = "legacy_shown" /\ shown.w.st = "run" =>
        shown.w.f.buf = Joined(Printed(Elements(dem.inner), shown.alt))

\* the interior of s in one of the three envelopes, <<>> when in none
Interior(s) ==
    IF StartsWith(s, <<"_","Z","N">>) /\ EndsWith(s, "E") THEN SubSeq(s, 4, Len(s) - 1)
    ELSE IF StartsWith(s, <<"Z","N">>) /\ EndsWith(s, "E") THEN SubSeq(s, 3, Len(s) - 1)
    ELSE IF StartsWith(s, <<"_","_","Z","N">>) /\ EndsWith(s, "E")
    THEN SubSeq(s, 5, Len(s) - 1)
    ELSE <<>>

\* an ASCII interior that is exactly a concatenation of elements
WellFormedLegacy(s) ==
    /\ Interior(s) # <<>>
    /\ \A i \in 1..Len(Interior(s)) : IsAscii(Interior(s)[i])
    /\ LeftOver(Interior(s)) = <<>>

\* C5: legacy::demangle succeeds exactly on an envelope whose ASCII interior
\* is a concatenation of elements (length N >= 1, then N bytes) with nothing
\* left over, and then records the number of those elements.
C5_LegacyAccepts ==
    pc = "legacy" =>
        /\ dem.ok <=> WellFormedLegacy(sym)
        /\ dem.ok => dem.elements = Len(Elements(dem.inner))

-----------------------------------------------------------------------------
(* v0 symbols as the specification describes them *)

V0Prefixes == { <<"_", "R">>, <<"R">>, <<"_", "_", "R">> }

\* the printer after a skipping-mode parse of one path of inner from offset at
PathFrom(inner, at) ==
    Call("print_path", [NewPrinter(inner, FALSE, FALSE, NoCap) EXCEPT !.next = at], FALSE)

Parses(q) == q.st = "run" /\ q.perr = "ok"

\* a byte in A..Z follows the path that q has parsed
CrateFollows(inner, q) == q.next < Len(inner) /\ IsUpper(inner[q.next + 1])

\* the offset after the last path that v0::demangle parses
LastPathEnd(inner) ==
    IF CrateFollows(inner, PathFrom(inner, 0))
    THEN PathFrom(inner, PathFrom(inner, 0).next).next
    ELSE PathFrom(inner, 0).next

\* what v0::demangle requires of the bytes after the prefix
V0Accepts(inner) ==
    /\ inner # <<>>
    /\ IsUpper(inner[1])
    /\ \A i \in 1..Len(inner) : IsAscii(inner[i])
    /\ Parses(PathFrom(inner, 0))
    /\ CrateFollows(inner, PathFrom(inner, 0)) =>
           Parses(PathFrom(inner, PathFrom(inner, 0).next))

\* C6: v0::demangle succeeds exactly when the symbol is a prefix `_R`, `R` or
\* `__R` and at least one byte, the first of them in A..Z, all of them ASCII,
\* one path parses in skipping mode from offset 0 and, when a byte in A..Z
\* follows it, a second path parses too; the remainder is what follows the
\* last parsed path, and Display prints the first path only.
C6_V0Accepts ==
    /\ pc = "v0" =>
           /\ dem.res = "ok" <=>
                  \E pre \in V0Prefixes :
                      StartsWith(sym, pre) /\ V0Accepts(Drop(sym, Len(pre)))
           /\ dem.res = "ok" => dem.rest = Drop(dem.inner, LastPathEnd(dem.inner))
    /\ pc = "v0_shown" /\ Parses(shown.p) =>
           shown.p.next = PathFrom(dem.inner, 0).next

\* C6 happens: a symbol with an instantiating crate has been displayed
C6_Witness ==
    /\ pc = "v0_shown"
    /\ sym = Bytes("_RNvC1a1bC1c")
    /\ dem.res = "ok"
    /\ dem.rest = <<>>
    /\ LastPathEnd(dem.inner) = 10
    /\ shown.p.next = 7
    /\ shown.p.f.buf = Bytes("a::b")

-----------------------------------------------------------------------------
(* Errors during one v0 Display *)

\* a production that was entered with the parser in error wrote only `?`
\* and left the parser in error
OnlyQuestionMark(r) ==
    /\ r.parser # "ok"
    /\ r.printing /\ r.st = "run" => r.wrote = <<"?">>

\* C7 as stated: once a parse error has been raised during a Display, no
\* production reads further input and every production attempted afterwards
\* prints only `?`.
C7_Sticky ==
    pc = "v0_shown" =>
        /\ ~shown.p.readLate
        /\ \A r \in shown.p.late : OnlyQuestionMark(r)

\* C7, amended: while the printer's parser is in error, every production
\* that is attempted prints only `?` and reads nothing; the parser leaves
\* the error state only at the end of a backref whose target raised it,
\* where print_backref puts back the parser of before.
C7_StickyUntilBackrefEnds ==
    pc = "v0_shown" =>
        /\ \A r \in shown.p.late : OnlyQuestionMark(r)
        /\ shown.p.readLate => \E i \in 1..Len(dem.inner) : dem.inner[i] = "B"
        /\ shown.p.perr # "ok" => shown.p.raised

\* C7 happens: the target of a backref fails and prints `?` for its type, the
\* tuple around the backref is read on, fails itself and prints `?` again
C7_Witness ==
    /\ pc = "v0_shown"
    /\ sym = Bytes("_RMC0TFG_RL0_hEuB6_RL0_hE")
    /\ shown.cap = NoCap
    /\ shown.p.st = "run"
    /\ shown.p.readLate
    /\ shown.p.perr = "Invalid"
    /\ \E r \in shown.p.late : r.printing /\ r.prod = "print_type" /\ r.wrote = <<"?">>
    /\ shown.p.f.buf =
           Bytes("<(for<'a> fn(&'a u8), &'{invalid syntax} ?, &'{invalid syntax} ?)>")

\* how many times pat occurs in buf
Occurrences(buf, pat) ==
    Cardinality({i \in 1..(Len(buf) - Len(pat) + 1) :
                     SubSeq(buf, i, i + Len(pat) - 1) = pat})

\* the error placeholders in buf
Placeholders(buf) ==
    Occurrences(buf, message("Invalid")) + Occurrences(buf, message("RecursedTooDeep"))

\* C8: the output of one v0 Display holds at most one error placeholder,
\* `{invalid syntax}` or `{recursion limit reached}`.
C8_OnePlaceholder ==
    pc = "v0_shown" => Placeholders(shown.p.f.buf) <= 1

\* C9: when a v0 Display returns Ok, every structural opening delimiter of
\* its output has its closing delimiter: as many `<` as `>` (those of `->`
\* apart), as many `(` as `)`, as many `[` as `]`.
C9_Balanced ==
    pc = "v0_shown" /\ shown.p.st = "run" =>
        /\ Occurrences(shown.p.f.buf, <<"<">>) =
               Occurrences(shown.p.f.buf, <<">">>) - Occurrences(shown.p.f.buf, <<"-", ">">>)
        /\ Occurrences(shown.p.f.buf, <<"(">>) = Occurrences(shown.p.f.buf, <<")">>)
        /\ Occurrences(shown.p.f.buf, <<"[">>) = Occurrences(shown.p.f.buf, <<"]">>)

\* C10: a v0 Display returns an error exactly when the sink refused a write,
\* and returns Ok into a sink that never fails; in skipping mode no
\* formatting error arises, so the `expect` of the dry parse and that of
\* skipping_printing never fire.
C10_ErrorIffSinkFailed ==
    /\ pc = "v0" => dem.res # "panic"
    /\ pc = "v0_shown" =>
           /\ shown.p.st = "fmt" <=> shown.p.f.refused
           /\ shown.cap = NoCap => shown.p.st = "run"

-----------------------------------------------------------------------------
(* Recursion *)

\* C11: neither the dry parse nor a Display of a v0 symbol ever has more than
\* MAX_DEPTH calls of print_path, print_type and print_const in progress
\* beyond their push_depth, backrefs followed or not; the dry parse fails
\* with RecursedTooDeep only from MAX_DEPTH levels, at the call that would
\* make one more.
C11_DepthBounded ==
    /\ pc = "v0" =>
           /\ PathFrom(v0_inner(sym), 0).levels <= MAX_DEPTH
           /\ PathFrom(v0_inner(sym), 0).perr = "RecursedTooDeep" =>
                  PathFrom(v0_inner(sym), 0).levels = MAX_DEPTH
    /\ pc = "v0_shown" => shown.p.levels <= MAX_DEPTH

\* C11 happens: a chain of references hidden in a crate name and reached by
\* a backref runs into the limit during Display
C11_Witness ==
    /\ pc = "v0_shown"
    /\ sym = Bytes("_RIC8RRRRRRRRB2_E")
    /\ shown.cap = NoCap
    /\ Occurrences(shown.p.f.buf, message("RecursedTooDeep")) = 1
    /\ shown.p.levels = MAX_DEPTH - 1
    /\ shown.p.st = "run"

\* C12: demangle and Display come to an end for every input.  Legacy Display
\* writes at most two bytes for each byte of the interior; a v0 Display
\* returns with every production and every backref left, has never had more
\* than MAX_DEPTH / 2 backrefs in progress, one inside the other, and the dry
\* parse follows none.
C12_Terminates ==
    /\ pc = "legacy_shown" =>
           /\ shown.w.st \in {"run", "fmt"}
           /\ Len(shown.w.f.buf) <= 2 * Len(dem.inner)
    /\ pc = "v0" => PathFrom(v0_inner(sym), 0).followed = 0
    /\ pc = "v0_shown" =>
           /\ shown.p.st \in {"run", "fmt", "panic"}
           /\ shown.p.st = "run" => shown.p.live = 0 /\ shown.p.nest = 0
           /\ 2 * shown.p.nests <= MAX_DEPTH

\* C12 happens: the target of a backref contains the backref itself, and
\* Display ends after following it once
C12_Witness ==
    /\ pc = "v0_shown"
    /\ sym = Bytes("_RNvNvB1_1x1y")
    /\ shown.cap = NoCap
    /\ shown.p.st = "run"
    /\ shown.p.followed = 1
    /\ shown.p.nests = 1
    /\ shown.p.f.buf = Bytes("{recursion limit reached}::?::x::y")

\* C13 as stated, with the constant 1: during one Display no byte of the
\* symbol is consumed more than MAX_DEPTH times.
C13_VisitsBounded ==
    pc = "v0_shown" =>
        \A i \in DOMAIN shown.p.visits : shown.p.visits[i] <= MAX_DEPTH

\* C13, amended: during one Display each parser, the one of the symbol and
\* the one of each backref that is followed, consumes a byte at most once,
\* and a second time when the byte is the tag of a path that stands for a
\* type; how often a byte is visited grows with the backrefs followed, not
\* with MAX_DEPTH.
C13_VisitsPerParser ==
    pc = "v0_shown" =>
        \A i \in DOMAIN shown.p.visits :
            shown.p.visits[i] <=
                (1 + shown.p.followed) * (IF IsUpper(dem.inner[i]) THEN 2 ELSE 1)

\* C13 happens: nine backrefs to one byte, which is consumed ten times
C13_Witness ==
    /\ pc = "v0_shown"
    /\ sym = Bytes("_RMC0TuB3_B3_B3_B3_B3_B3_B3_B3_B3_E")
    /\ shown.p.st = "run"
    /\ shown.p.followed = 9
    /\ shown.p.visits[5] = 10
    /\ shown.p.levels = 3



-----------------------------------------------------------------------------
(* C14: backrefs point backwards.                                          *)

IsBase62(c) == IsDec(c) \/ IsLower(c) \/ IsUpper(c)

Digit62(c) ==
    IF IsDec(c) THEN Ord(c, Dec)
    ELSE IF IsLower(c) THEN 10 + Ord(c, Lower) ELSE 36 + Ord(c, Upper)

\* the base-62 number whose digits start at s[k], v being the digits before;
\* no number is -1, and a number of Len(s) or more is Len(s)
RECURSIVE Base62From(_, _, _)
Base62From(s, k, v) ==
    IF k > Len(s) THEN 0 - 1
    ELSE IF s[k] = "_" THEN Min(v + 1, Len(s))
    ELSE IF ~IsBase62(s[k]) THEN 0 - 1
    ELSE Base62From(s, k + 1, Min(v * 62 + Digit62(s[k]), Len(s)))

\* the offset that the backref whose `B` is at offset at points to
TargetOf(s, at) ==
    IF at + 2 <= Len(s) /\ s[at + 2] = "_" THEN 0 ELSE Base62From(s, at + 2, 0)

\* C14: a call of Parser::backref whose target offset is the offset of its `B`
\* or more fails with Invalid, in a Display and in the dry parse, which then
\* rejects the symbol; every other call that gives a sub-parser gives one that
\* starts at the target offset, before the `B`
C14_BackrefBefore ==
    /\ pc = "v0_shown" =>
           \A r \in shown.p.refs :
               /\ dem.inner[r.at + 1] = "B"
               /\ TargetOf(dem.inner, r.at) >= r.at => r.err = "Invalid"
               /\ r.err = "ok" => r.to = TargetOf(dem.inner, r.at) /\ r.to < r.at
    /\ pc = "v0" =>
           \A r \in PathFrom(v0_inner(sym), 0).refs :
               TargetOf(v0_inner(sym), r.at) >= r.at =>
                   r.err = "Invalid" /\ dem.res = "Invalid"

\* C14 happens: the backref at offset 10 points to offset 5, where the bytes of
\* an identifier read as a backref to offset 36
C14_Witness ==
    /\ pc = "v0_shown"
    /\ sym = Bytes("_RINvC3Bz_1xB4_E")
    /\ shown.cap = NoCap
    /\ ~shown.alt
    /\ shown.p.refs = {[at |-> 10, err |-> "ok", to |-> 5],
                       [at |-> 5, err |-> "Invalid", to |-> 0 - 1]}
    /\ shown.p.f.buf = Bytes("Bz_[0]::x::<{invalid syntax}>")

-----------------------------------------------------------------------------
(* C15: what the two modes print.                                          *)

\* a bracketed disambiguator in lowercase hexadecimal
IsDisambiguator(t) ==
    /\ Len(t) >= 3
    /\ t[1] = "[" /\ t[Len(t)] = "]"
    /\ \A i \in 2..(Len(t) - 1) : IsNibble(t[i])

\* the type annotation of a const
IsAnnotation(t) ==
    /\ Len(t) >= 3
    /\ t[1] = ":" /\ t[2] = " "
    /\ \E tag \in {"h","t","m","y","o","j","a","s","l","x","n","i","b","c"} :
           Drop(t, 2) = basic_type(tag)

\* buf without the parts that marks names, which follow one another
RECURSIVE Without(_, _)
Without(buf, marks) ==
    IF marks = <<>> THEN buf
    ELSE Without(Take(buf, marks[Len(marks)].from) \o Drop(buf, marks[Len(marks)].to),
                 Take(marks, Len(marks) - 1))

\* the v0 half of C15: what normal mode writes and alternate mode does not
\* is crate disambiguators and const type annotations, and nothing else differs
C15_V0Strips ==
    pc = "v0_shown" /\ ~shown.alt /\ shown.cap = NoCap /\ shown.p.st = "run" =>
        /\ \A i \in DOMAIN shown.p.marks :
               LET t == SubSeq(shown.p.f.buf, shown.p.marks[i].from + 1,
                               shown.p.marks[i].to)
               IN IsDisambiguator(t) \/ IsAnnotation(t)
        /\ v0_fmt(dem.inner, TRUE, NoCap).st = "run"
        /\ v0_fmt(dem.inner, TRUE, NoCap).marks = <<>>
        /\ v0_fmt(dem.inner, TRUE, NoCap).f.buf = Without(shown.p.f.buf, shown.p.marks)

\* the legacy half of C15: alternate mode leaves out a last element that is a
\* hash, with the `::` before it, and nothing else
C15_LegacyStrips ==
    pc = "legacy_shown" /\ ~shown.alt /\ shown.cap = NoCap /\ shown.w.st = "run"
        /\ Elements(dem.inner) # <<>> =>
        LET es == Elements(dem.inner)
            last == es[Len(es)]
            a == legacy_fmt(dem, TRUE, NewSink(NoCap))
        IN /\ a.st = "run"
           /\ shown.w.f.buf =
                  IF ~IsHashElement(last) THEN a.f.buf
                  ELSE a.f.buf \o (IF Len(es) > 1 THEN <<":", ":">> ELSE <<>>) \o last

\* C15: the alternate output of an accepted symbol is its normal output
\* without the bracketed crate disambiguators and the const type annotations
\* (v0) or without the last element when it is a hash (legacy); for a legacy
\* symbol whose last element is not a hash the two outputs are equal
C15_AlternateStrips == C15_V0Strips /\ C15_LegacyStrips

-----------------------------------------------------------------------------
(* C16: crate roots.                                                       *)

-----------------------------------------------------------------------------
(* C17: symbols without disambiguators and consts.                         *)

\* no `C` of s is followed by `s`, and s has no `K` (a const argument) and
\* no `A` (an array type, whose length is a const)
Undisambiguated(s) ==
    /\ \A k \in 1..(Len(s) - 1) : s[k] = "C" => s[k + 1] # "s"
    /\ \A k \in 1..Len(s) : s[k] \notin {"K", "A"}

\* C17: a v0 symbol whose crate roots have no `s` disambiguator and that has
\* no const argument prints the same in both modes, with no bracketed
\* disambiguator; _RNvC6_123foo3bar prints `123foo::bar` in both
C17_SameInBothModes ==
    pc = "v0_shown" /\ shown.cap = NoCap /\ shown.p.st = "run"
        /\ Undisambiguated(dem.inner) =>
        /\ shown.p.marks = <<>>
        /\ shown.p.f.buf = v0_fmt(dem.inner, ~shown.alt, NoCap).f.buf
        /\ sym = Bytes("_RNvC6_123foo3bar") => shown.p.f.buf = Bytes("123foo::bar")

-----------------------------------------------------------------------------
(* C18: const values.                                                      *)

UnsignedTags == {"h","t","m","y","o","j"}
SignedTags == {"a","s","l","x","n","i"}

\* the hex nibbles of s from s[i] on
RECURSIVE NibbleRun(_, _)
NibbleRun(s, i) ==
    IF i <= Len(s) /\ IsNibble(s[i]) THEN <<s[i]>> \o NibbleRun(s, i + 1) ELSE <<>>

\* the const whose type tag is s[i]: where its nibbles start, its nibbles,
\* whether `_` ends them, whether the value is valid, and the value as printed
ConstAt(s, i) ==
    LET neg == s[i] \in SignedTags /\ i < Len(s) /\ s[i + 1] = "n"
        from == IF neg THEN i + 2 ELSE i + 1
        hex == NibbleRun(s, from)
        v == HexValue(hex, <<>>)
        number == IF Len(hex) > 16 THEN <<"0", "x">> \o hex ELSE DecStr(v)
    IN [ended |-> from + Len(hex) <= Len(s) /\ s[from + Len(hex)] = "_",
        end |-> from + Len(hex),
        valid |-> CASE s[i] = "b" -> hex \in {<<"0">>, <<"1">>}
                    [] s[i] = "c" -> Len(hex) <= 8 /\ IsScalarValue(v)
                    [] OTHER -> TRUE,
        value |-> CASE s[i] = "b" -> IF hex = <<"0">> THEN <<"f","a","l","s","e">>
                                     ELSE <<"t","r","u","e">>
                    [] s[i] = "c" -> DebugChar(Small(v))
                    [] OTHER -> (IF neg THEN <<"-">> ELSE <<>>) \o number]

-----------------------------------------------------------------------------
(* C19: integer consts.                                                    *)

\* C19: print_const started at the type tag of an integer const after a `K`
\* prints the value and, in normal mode, the type right after it, with
\* nothing in between; _RMC0INtC8arrayvec8ArrayVechKj7b_E is displayed as
\* `<arrayvec::ArrayVec<u8, 123usize>>`, and as
\* `<arrayvec::ArrayVec<u8, 123>>` in alternate mode
C19_IntegerConst ==
    pc = "v0_shown" =>
        /\ \A k \in 1..(Len(dem.inner) - 1) :
               /\ dem.inner[k] = "K"
               /\ dem.inner[k + 1] \in UnsignedTags \cup SignedTags
               /\ ConstAt(dem.inner, k + 1).ended
               => Call("print_const",
                       [NewPrinter(dem.inner, TRUE, shown.alt, NoCap) EXCEPT !.next = k],
                       0).f.buf
                  = ConstAt(dem.inner, k + 1).value \o
                    (IF shown.alt THEN <<>> ELSE basic_type(dem.inner[k + 1]))
        /\ sym = Bytes("_RMC0INtC8arrayvec8ArrayVechKj7b_E") /\ shown.cap = NoCap =>
               shown.p.f.buf = IF shown.alt THEN Bytes("<arrayvec::ArrayVec<u8, 123>>")
                               ELSE Bytes("<arrayvec::ArrayVec<u8, 123usize>>")

-----------------------------------------------------------------------------
(* C20: identifiers whose punycode does not decode.                        *)

\* what is printed for an identifier that does not decode
Fallback(id) ==
    <<"p","u","n","y","c","o","d","e","{">> \o
    (IF id.ascii # <<>> THEN id.ascii \o <<"-">> ELSE <<>>) \o id.punycode \o <<"}">>

\* C20: wherever a `u` of the symbol starts an identifier whose punycode does
\* not decode (as when it has a byte that is no digit, or when the ASCII part
\* alone fills the buffer of SMALL_PUNYCODE_LEN characters), the identifier
\* is printed as `punycode{`, the ASCII part and `-` when there is one, the
\* punycode and `}`; no parse error is set and the cursor stays where the
\* parse of the identifier left it
C20_PunycodeFallback ==
    pc = "v0_shown" =>
        \A k \in 0..(Len(dem.inner) - 1) :
            dem.inner[k + 1] = "u" =>
                LET id == ident([sym |-> dem.inner, next |-> k, depth |-> 0])
                    decoded == try_small_punycode_decode(id.x)
                    fresh == NewPrinter(dem.inner, TRUE, shown.alt, NoCap)
                    q == print_ident([fresh EXCEPT !.next = id.ps.next], id.x)
                IN id.err = "ok" =>
                       /\ (\E i \in DOMAIN id.x.punycode :
                               ~IsLower(id.x.punycode[i]) /\ ~IsDec(id.x.punycode[i]))
                              => ~decoded.ok
                       /\ Len(id.x.ascii) >= SMALL_PUNYCODE_LEN => ~decoded.ok
                       /\ ~decoded.ok =>
                              /\ q.f.buf = Fallback(id.x)
                              /\ q.st = "run"
                              /\ q.perr = "ok" /\ ~q.raised
                              /\ q.next = id.ps.next

\* C20 happens: the punycode ib9b stands for the surrogate U+D800, and the
\* path goes on after it
C20_Witness ==
    /\ pc = "v0_shown"
    /\ sym = Bytes("_RNvNqC0u4ib9b1x")
    /\ ~shown.alt
    /\ shown.cap = NoCap
    /\ shown.p.st = "run"
    /\ shown.p.perr = "ok" /\ ~shown.p.raised
    /\ shown.p.next = Len(dem.inner)
    /\ shown.p.f.buf = Bytes("[0]::punycode{ib9b}::x")

-----------------------------------------------------------------------------
(* Claim C21: arithmetic on numbers taken from the input.                  *)

\* the index of the first byte at or after index i that is not in D
RunEnd(s, i, D) ==
    LET stops == {j \in i..Len(s) : s[j] \notin D}
    IN IF stops = {} THEN Len(s) + 1
       ELSE CHOOSE j \in stops : \A m \in stops : j <= m

Base62Set == Range(Dec) \cup Range(Lower) \cup Range(Upper)

\* the number that digits of a base stand for, with no limit on its size
RECURSIVE ExactFrom(_, _, _)
ExactFrom(ds, base, v) ==
    LET shifted == BigAdd(BigMul(v, base), BigOf(Digit62(Head(ds))))
    IN IF ds = <<>> THEN v
       ELSE IF shifted = <<>> THEN ExactFrom(Tail(ds), base, <<>>)
       ELSE ExactFrom(Tail(ds), base, shifted)

\* more than MaxDigits significant digits stand for a number over 2^64
MaxDigits == 22

Exact(ds, base) ==
    LET sig == Drop(ds, RunEnd(ds, 1, {"0"}) - 1)
    IN IF Len(sig) > MaxDigits THEN <<0, 0, 0, 0, 1>>
       ELSE ExactFrom(sig, base, <<>>)

\* the first delta of a punycode, with no limit on its size: the thresholds
\* under the initial bias are 1, 1 and then 26
RECURSIVE ExactDelta(_, _, _, _)
ExactDelta(bytes, j, w, delta) ==
    LET t == IF j < 2 THEN 1 ELSE 26
        d == IF IsLower(bytes[j + 1]) THEN Ord(bytes[j + 1], Lower)
             ELSE 26 + Ord(bytes[j + 1], Dec)
        sum == BigAdd(delta, BigMul(w, d))
    IN IF j >= Len(bytes) \/ j > MaxDigits THEN [ok |-> FALSE, delta |-> <<>>]
       ELSE IF ~IsLower(bytes[j + 1]) /\ ~IsDec(bytes[j + 1])
       THEN [ok |-> FALSE, delta |-> <<>>]
       ELSE IF d < t THEN [ok |-> TRUE, delta |-> sum]
       ELSE IF sum = <<>> THEN ExactDelta(bytes, j + 1, BigMul(w, 36 - t), <<>>)
       ELSE ExactDelta(bytes, j + 1, BigMul(w, 36 - t), sum)

\* the length of the first element of a legacy symbol that does not fit a
\* usize makes the symbol one that is not demangled
C21_LegacyLength ==
    pc = "legacy" /\ Interior(sym) # <<>> =>
        LET end == RunEnd(Interior(sym), 1, Range(Dec))
        IN ~FitsUsize(Exact(Take(Interior(sym), end - 1), 10)) => ~dem.ok

\* a base-62 integer is the number its digits stand for plus one (0 for a
\* bare `_`) when that fits 64 bits and Invalid when it does not; an optional
\* integer, as a disambiguator or a binder's count, adds one more under the
\* same check
C21_Integer62 ==
    pc = "v0" =>
        \A k \in 0..(Len(v0_inner(sym)) - 1) :
            LET inner == v0_inner(sym)
                end == RunEnd(inner, k + 1, Base62Set)
                exact == IF end = k + 1 THEN <<>>
                         ELSE BigAdd(Exact(SubSeq(inner, k + 1, end - 1), 62), BigOf(1))
                r == integer_62([sym |-> inner, next |-> k, depth |-> 0])
                o == opt_integer_62([sym |-> inner, next |-> k - 1, depth |-> 0],
                                    inner[k])
            IN end <= Len(inner) /\ inner[end] = "_" =>
                   /\ IF FitsU64(exact)
                      THEN r.err = "ok" /\ r.x = exact /\ r.ps.next = end
                      ELSE r.err = "Invalid"
                   /\ k > 0 /\ inner[k] \in {"s", "G"} =>
                          IF FitsU64(BigAdd(exact, BigOf(1)))
                          THEN o.err = "ok" /\ o.x = BigAdd(exact, BigOf(1))
                          ELSE o.err = "Invalid"

\* an identifier whose length does not fit a usize, or whose end is past the
\* end of the symbol, is Invalid; any other ends at its start plus its length
C21_IdentLength ==
    pc = "v0" =>
        \A k \in 0..(Len(v0_inner(sym)) - 1) :
            LET inner == v0_inner(sym)
                end == IF inner[k + 1] = "0" THEN k + 2
                       ELSE RunEnd(inner, k + 1, Range(Dec))
                len == Exact(SubSeq(inner, k + 1, end - 1), 10)
                start == IF end <= Len(inner) /\ inner[end] = "_" THEN end ELSE end - 1
                id == ident([sym |-> inner, next |-> k, depth |-> 0])
            IN IsDec(inner[k + 1]) =>
                   IF FitsUsize(len) /\ ~BigLess(BigOf(Len(inner) - start), len)
                   THEN id.err = "ok" /\ id.ps.next = start + Small(len)
                   ELSE id.err = "Invalid"

\* a punycode whose first delta does not fit a usize is not decoded, and the
\* identifier is printed in its fallback form
C21_PunycodeDelta ==
    pc = "v0_shown" =>
        \A k \in 0..(Len(dem.inner) - 1) :
            dem.inner[k + 1] = "u" =>
                LET id == ident([sym |-> dem.inner, next |-> k, depth |-> 0])
                    delta == ExactDelta(id.x.punycode, 0, BigOf(1), <<>>)
                    fresh == NewPrinter(dem.inner, TRUE, shown.alt, NoCap)
                    q == print_ident([fresh EXCEPT !.next = id.ps.next], id.x)
                IN id.err = "ok" /\ delta.ok /\ ~FitsUsize(delta.delta) =>
                       /\ ~try_small_punycode_decode(id.x).ok
                       /\ q.f.buf = Fallback(id.x) /\ q.st = "run" /\ q.perr = "ok"

\* the count of a binder's lifetimes that takes bound_lifetime_depth over
\* what its 32 bits hold is an Invalid of the Display, which goes on to its end
C21_BinderCount ==
    pc = "v0_shown" =>
        \A k \in 0..(Len(dem.inner) - 1) :
            LET n == opt_integer_62([sym |-> dem.inner, next |-> k, depth |-> 0], "G")
            IN dem.inner[k + 1] = "G" /\ n.err = "ok" /\ ~FitsU32(n.x)
               /\ shown.p.visits[k + 1] > 0 /\ shown.cap = NoCap
                   => shown.p.st = "run" /\ shown.p.raised

\* C21: every arithmetic step on a number taken from the input is checked
\* for overflow: legacy element lengths, base-62 integers and their +1,
\* disambiguators, identifier lengths and end offsets, binder lifetime counts
\* and punycode deltas; an overflow is rejection (legacy), Invalid (v0) or
\* the punycode fallback, and never a wrapped or truncated number
C21_OverflowChecked ==
    /\ C21_LegacyLength
    /\ C21_Integer62
    /\ C21_IdentLength
    /\ C21_PunycodeDelta
    /\ C21_BinderCount

-----------------------------------------------------------------------------
(* Claim C22: the bounds of a parser's cursor and depth.                   *)

\* the parser of a printer, when it has one, is within the input and the limit
InBounds(p) ==
    p.perr = "ok" => /\ 0 <= p.next /\ p.next <= Len(p.sym)
                     /\ 0 <= p.depth /\ p.depth <= MAX_DEPTH

\* the parsers that the operations of a run returning Ok left or made
KeptInBounds(p) ==
    /\ InBounds(p)
    /\ p.kept.next <= Len(p.sym)
    /\ p.kept.depth <= MAX_DEPTH

\* the parsers that the failing operations of a run left
DroppedInBounds(p) ==
    /\ p.dropped.next <= Len(p.sym)
    /\ p.dropped.depth <= MAX_DEPTH

\* C22 as stated: the parser and every sub-parser of a backref has
\* 0 <= next <= len(input) and 0 <= depth <= MAX_DEPTH after every operation,
\* the failing ones too
C22_ParserBounds ==
    /\ pc = "v0_shown" => KeptInBounds(shown.p) /\ DroppedInBounds(shown.p)
    /\ pc = "v0" => /\ KeptInBounds(PathFrom(v0_inner(sym), 0))
                    /\ DroppedInBounds(PathFrom(v0_inner(sym), 0))

\* C22: the parser and every sub-parser of a backref has
\* 0 <= next <= len(input) and 0 <= depth <= MAX_DEPTH after every operation
\* that returns Ok; a failing push_depth leaves depth at MAX_DEPTH + 1 and no
\* more, a failing ident can leave next past the end, and the printer then
\* has the error in the place of that parser, or returns to the print_backref
\* that puts its own parser back when the sink refuses the error's message
C22_KeptParserBounds ==
    /\ pc = "v0_shown" =>
           /\ KeptInBounds(shown.p)
           /\ shown.p.dropped.depth <= MAX_DEPTH + 1
           /\ ~DroppedInBounds(shown.p) => shown.p.raised \/ shown.p.st = "fmt"
    /\ pc = "v0" =>
           /\ KeptInBounds(PathFrom(v0_inner(sym), 0))
           /\ PathFrom(v0_inner(sym), 0).dropped.depth <= MAX_DEPTH + 1
           /\ ~DroppedInBounds(PathFrom(v0_inner(sym), 0)) => dem.res # "ok"

\* C22 happens: operations returning Ok have taken the depth to MAX_DEPTH,
\* and the push_depth that failed left MAX_DEPTH + 1
C22_Witness ==
    /\ pc = "v0_shown"
    /\ shown.cap = NoCap
    /\ shown.p.kept.depth = MAX_DEPTH
    /\ shown.p.dropped.depth = MAX_DEPTH + 1
    /\ shown.p.kept.next = Len(dem.inner)
    /\ shown.p.raised

-----------------------------------------------------------------------------
(* Claim C23: the calls of push_depth and of pop_depth.                    *)

-----------------------------------------------------------------------------
(* Claim C24: recursion levels do not leak.                                *)

\* v0.rs 1207-1216: what the siblings are printed as in alternate mode
SiblingsPrinted(leaf) == "::<_" \o Repeated(", " \o leaf, 2 * MAX_DEPTH) \o ">"

\* C24: a call of print_path, print_type or print_const that returns without
\* a parse error leaves the depth it was entered with, so the depth is 0 after
\* a dry parse or a Display that ends without a parse error, and 2 * MAX_DEPTH
\* generic arguments side by side (basic types, references or crate paths)
\* are parsed and printed without the recursion limit being reached
C24_NoLeak ==
    /\ pc = "v0" =>
           /\ ~PathFrom(v0_inner(sym), 0).leaked
           /\ PathFrom(v0_inner(sym), 0).perr = "ok" =>
                  PathFrom(v0_inner(sym), 0).depth = 0
           /\ sym \in {Bytes(Siblings(l)) : l \in {"p", "Rp", "C1x"}} => dem.res = "ok"
    /\ pc = "v0_shown" =>
           /\ ~shown.p.leaked
           /\ shown.p.perr = "ok" /\ shown.p.st = "run" => shown.p.depth = 0
           /\ \A l \in {<<"p", "_">>, <<"Rp", "&_">>, <<"C1x", "x">>} :
                  sym = Bytes(Siblings(l[1])) /\ shown.alt /\ shown.cap = NoCap =>
                      /\ shown.p.f.buf = Bytes(SiblingsPrinted(l[2]))
                      /\ ~shown.p.raised
                      /\ shown.p.levels <= 3

\* C24 happens: 2 * MAX_DEPTH crate paths, each a type holding a path, have
\* been printed one after the other
C24_Witness ==
    /\ pc = "v0_shown"
    /\ sym = Bytes(Siblings("C1x"))
    /\ shown.alt /\ shown.cap = NoCap
    /\ shown.p.st = "run" /\ shown.p.perr = "ok"
    /\ shown.p.pushes = 2 + 4 * MAX_DEPTH
    /\ shown.p.levels = 3

-----------------------------------------------------------------------------
(* Claim C25: skipping and printing parse alike.                           *)

\* the production m run on the bytes from offset k on, without and with a
\* sink that never fails
Skipped(inner, m, k) ==
    Call(m, [NewPrinter(inner, FALSE, FALSE, NoCap) EXCEPT !.next = k], FALSE)
Shown(inner, m, k, alt) ==
    Call(m, [NewPrinter(inner, TRUE, alt, NoCap) EXCEPT !.next = k], FALSE)

SameParser(s, q) == s.perr = q.perr /\ s.next = q.next /\ s.depth = q.depth

Productions == {"print_path", "print_type", "print_const"}

-----------------------------------------------------------------------------
(* Claim C26: print_backref and the parser of its caller.                  *)

\* print_backref for the closure f, called after the `B` at offset k was
\* consumed by a parser of depth d and bound_lifetime_depth b
BackrefAt(inner, hasOut, alt, k, d, b, f) ==
    Call("print_backref",
         [NewPrinter(inner, hasOut, alt, NoCap) EXCEPT !.next = k + 1, !.depth = d,
                                                       !.bld = b],
         <<f, FALSE>>).p

-----------------------------------------------------------------------------
(* Claim C27: binders.                                                     *)

\* the closure that in_binder is given after the tag `F` or `D`
BinderBody(tag) == IF tag = "F" THEN "fn_sig" ELSE "dyn_traits"

\* the number of lifetimes that the bytes after a tag at offset k bind, with
\* no limit on its size, and the offset after them
BinderEnd(inner, k) ==
    IF k + 2 <= Len(inner) /\ inner[k + 2] = "G"
    THEN RunEnd(inner, k + 3, Base62Set)
    ELSE k + 1
BinderCount(inner, k) ==
    IF BinderEnd(inner, k) = k + 1 THEN <<>>
    ELSE IF BinderEnd(inner, k) = k + 3 THEN BigOf(1)
    ELSE BigAdd(Exact(SubSeq(inner, k + 3, BinderEnd(inner, k) - 1), 62), BigOf(2))

\* the name of the lifetime bound at depth x
LifetimeName(x) ==
    IF x < 26 THEN <<"'", Lower[x + 1]>> ELSE <<"'", "_">> \o DecStr(BigOf(x))

\* the names of n lifetimes bound from depth d on, with `, ` between them
RECURSIVE LifetimeNames(_, _)
LifetimeNames(d, n) ==
    IF n = 0 THEN <<>>
    ELSE LifetimeNames(d, n - 1) \o (IF n > 1 THEN <<",", " ">> ELSE <<>>)
                                 \o LifetimeName(d + n - 1)

BinderPrefix(d, n) ==
    IF n = 0 THEN <<>>
    ELSE <<"f", "o", "r", "<">> \o LifetimeNames(d, n) \o <<">", " ">>

\* a printer with a sink that never fails, after the tag at offset k, with
\* bound_lifetime_depth b
AfterTag(inner, alt, at, b) ==
    [NewPrinter(inner, TRUE, alt, NoCap) EXCEPT !.next = at, !.depth = 1, !.bld = b]

\* the depths that binders are entered at
BinderDepths == {0, 25}
\* the largest count whose names are compared one by one
MaxNames == 8

WellFormedBinder(inner, k) ==
    /\ inner[k + 1] \in {"F", "D"}
    /\ BinderEnd(inner, k) = k + 1
       \/ (BinderEnd(inner, k) <= Len(inner) /\ inner[BinderEnd(inner, k)] = "_")

\* a binder of at most MaxNames lifetimes prints `for<`, their names and
\* `> ` when it has any, then what its body prints at depth d + n, and
\* leaves bound_lifetime_depth at d
C27_Printed ==
    pc = "v0_shown" /\ shown.cap = NoCap =>
        \A k \in 0..(Len(dem.inner) - 1) : \A d \in BinderDepths :
            LET n == BinderCount(dem.inner, k)
                end == IF BinderEnd(dem.inner, k) = k + 1 THEN k + 1
                       ELSE BinderEnd(dem.inner, k)
                q == in_binder(AfterTag(dem.inner, shown.alt, k + 1, d),
                               BinderBody(dem.inner[k + 1]))
                from == AfterTag(dem.inner, shown.alt, end, d + Small(n))
                body == IF dem.inner[k + 1] = "F" THEN fn_sig(from) ELSE dyn_traits(from)
            IN WellFormedBinder(dem.inner, k) /\ IsSmall(n) /\ Small(n) <= MaxNames =>
                   /\ q.st = "run"
                   /\ q.f.buf = BinderPrefix(d, Small(n)) \o body.f.buf
                   /\ q.perr = body.perr /\ q.next = body.next
                   /\ q.bld = d

\* a binder of any number of lifetimes returns, and leaves
\* bound_lifetime_depth at d
C27_Restored ==
    pc = "v0_shown" /\ shown.cap = NoCap =>
        \A k \in 0..(Len(dem.inner) - 1) : \A d \in BinderDepths :
            LET n == BinderCount(dem.inner, k)
                q == in_binder(AfterTag(dem.inner, shown.alt, k + 1, d),
                               BinderBody(dem.inner[k + 1]))
            IN WellFormedBinder(dem.inner, k) /\ FitsU64(n) =>
                   q.st = "run" /\ q.bld = d

\* C27: a binder of n lifetimes entered at bound_lifetime_depth d, for every
\* n that can be encoded, prints `for<`, the names of the lifetimes of depths
\* d .. d + n - 1 with `, ` between them and `> ` exactly when n > 0, runs its
\* body at depth d + n, and leaves bound_lifetime_depth at d when it returns,
\* also when the body raised a parse error
C27_Binder == C27_Printed /\ C27_Restored

-----------------------------------------------------------------------------
(* Claim C28: the names of lifetimes.                                      *)

\* the values of bound_lifetime_depth that lifetimes are printed at
LifetimeDepths == {0, 1, 2, 4, 26, 27, 30}

\* the lifetime index that the bytes after an `L` at offset k stand for
LifetimeIndex(inner, k) ==
    IF RunEnd(inner, k + 2, Base62Set) = k + 2 THEN <<>>
    ELSE BigAdd(Exact(SubSeq(inner, k + 2, RunEnd(inner, k + 2, Base62Set) - 1), 62),
                BigOf(1))

\* C28: with a sink, the lifetime of index 0 is printed as `'_`; that of an
\* index k from 1 to bound_lifetime_depth as `'` and the letter number
\* bound_lifetime_depth - k of a..z when that is under 26, and as `'_` and
\* that number in decimal when it is not; an index over bound_lifetime_depth
\* raises Invalid
C28_LifetimeNames ==
    pc = "v0_shown" /\ shown.cap = NoCap =>
        \A k \in 0..(Len(dem.inner) - 1) : \A b \in LifetimeDepths :
            LET end == RunEnd(dem.inner, k + 2, Base62Set)
                lt == LifetimeIndex(dem.inner, k)
                q == print_lifetime_from_index(
                         [NewPrinter(dem.inner, TRUE, shown.alt, NoCap)
                              EXCEPT !.next = end, !.bld = b], lt)
                x == b - Small(lt)
            IN dem.inner[k + 1] = "L" /\ end <= Len(dem.inner) /\ dem.inner[end] = "_"
               /\ IsSmall(lt) =>
                   /\ q.st = "run" /\ q.bld = b
                   /\ lt = <<>> => q.f.buf = <<"'", "_">> /\ q.perr = "ok"
                   /\ lt # <<>> /\ x >= 0 /\ x < 26 =>
                          q.f.buf = <<"'", Lower[x + 1]>> /\ q.perr = "ok"
                   /\ lt # <<>> /\ x >= 26 =>
                          q.f.buf = <<"'", "_">> \o DecStr(BigOf(x)) /\ q.perr = "ok"
                   /\ x < 0 =>
                          /\ q.perr = "Invalid"
                          /\ q.f.buf = <<"'">> \o message("Invalid")
                   /\ q.perr = "ok" => q.next = end

\* C28 happens: at depth 30 the index 4 is the lifetime '_26, at depth 27 it
\* is 'x, and at depth 2 nothing binds it
C28_Witness ==
    /\ pc = "v0_shown" /\ shown.cap = NoCap
    /\ sym = Bytes("_RMC0FG0_RL3_uEu")
    /\ LifetimeIndex(dem.inner, 8) = BigOf(4)
    /\ LET at(b) == print_lifetime_from_index(
                        [NewPrinter(dem.inner, TRUE, shown.alt, NoCap)
                             EXCEPT !.next = 11, !.bld = b], BigOf(4))
       IN /\ at(30).f.buf = <<"'", "_", "2", "6">>
          /\ at(27).f.buf = <<"'", "x">>
          /\ at(2).perr = "Invalid"
    /\ shown.p.unbound

-----------------------------------------------------------------------------
(* Claim C29: the buffer of try_small_punycode_decode.                     *)

\* C29: wherever a `u` of the symbol starts an identifier, no insertion of
\* its decoding is at a position after the characters inserted so far, and
\* there are never more than SMALL_PUNYCODE_LEN of these; an identifier of
\* SMALL_PUNYCODE_LEN characters is decoded and printed whole; the insertion
\* of one more character fails with the buffer as it was, and the
\* identifier is printed in its fallback form
C29_SmallBuffer ==
    pc = "v0_shown" =>
        \A k \in 0..(Len(dem.inner) - 1) :
            dem.inner[k + 1] = "u" =>
                LET id == ident([sym |-> dem.inner, next |-> k, depth |-> 0])
                    r == try_small_punycode_decode(id.x)
                    fresh == NewPrinter(dem.inner, TRUE, shown.alt, NoCap)
                    q == print_ident([fresh EXCEPT !.next = id.ps.next], id.x)
                IN id.err = "ok" =>
                       /\ ~r.past
                       /\ Len(r.out) <= SMALL_PUNYCODE_LEN
                       /\ Len(id.x.ascii) < SMALL_PUNYCODE_LEN /\ id.x.punycode = <<"a">> =>
                              /\ r.ok
                              /\ r.out = <<Scalar(128)>> \o id.x.ascii
                              /\ q.f.buf = r.out
                       /\ Len(id.x.ascii) >= SMALL_PUNYCODE_LEN =>
                              /\ ~r.ok
                              /\ r.out = Take(id.x.ascii, SMALL_PUNYCODE_LEN)
                              /\ q.f.buf = Fallback(id.x)
                       /\ r.ok => Len(r.out) > Len(id.x.ascii) /\ q.f.buf = r.out

\* C29 happens: an identifier of SMALL_PUNYCODE_LEN - 1 ASCII characters and
\* one more character has filled the buffer
C29_Witness ==
    /\ pc = "v0_shown"
    /\ sym = Bytes(FullIdent)
    /\ LET id == ident([sym |-> dem.inner, next |-> 3, depth |-> 0])
       IN /\ id.err = "ok"
          /\ Len(id.x.ascii) = SMALL_PUNYCODE_LEN - 1
          /\ try_small_punycode_decode(id.x).ok
          /\ Len(try_small_punycode_decode(id.x).out) = SMALL_PUNYCODE_LEN
    /\ shown.cap = NoCap
    /\ Len(shown.p.f.buf) > SMALL_PUNYCODE_LEN

-----------------------------------------------------------------------------
(* Claim C30: the list of a dyn trait.                                     *)

\* the production m run from offset at with a sink that never fails
Piece(inner, alt, m, at) ==
    Call(m, [NewPrinter(inner, TRUE, alt, NoCap) EXCEPT !.next = at, !.depth = 1], FALSE)

\* the run has ended without a parse error
Fine(q) == q.st = "run" /\ q.perr = "ok" /\ ~q.raised

NoEntries == [ok |-> FALSE, entries |-> <<>>, next |-> 0]

\* what the generic arguments from offset at to their `E` are printed as
RECURSIVE ArgsFrom(_, _, _)
ArgsFrom(inner, alt, at) ==
    LET q == Piece(inner, alt, "print_generic_arg", at)
        more == ArgsFrom(inner, alt, q.next)
    IN IF at >= Len(inner) THEN NoEntries
       ELSE IF inner[at + 1] = "E" THEN [ok |-> TRUE, entries |-> <<>>, next |-> at + 1]
       ELSE IF ~Fine(q) \/ ~more.ok THEN NoEntries
       ELSE [ok |-> TRUE, entries |-> <<q.f.buf>> \o more.entries, next |-> more.next]

\* what the bindings `p`, identifier, type from offset at on are printed as
RECURSIVE BindingsFrom(_, _, _)
BindingsFrom(inner, alt, at) ==
    LET id == ident([sym |-> inner, next |-> at + 1, depth |-> 1])
        name == print_ident(NewPrinter(inner, TRUE, alt, NoCap), id.x)
        ty == Piece(inner, alt, "print_type", id.ps.next)
        more == BindingsFrom(inner, alt, ty.next)
    IN IF at >= Len(inner) \/ inner[at + 1] # "p"
       THEN [ok |-> TRUE, entries |-> <<>>, next |-> at]
       ELSE IF id.err # "ok" THEN NoEntries
       ELSE IF ~Fine(ty) \/ ~more.ok THEN NoEntries
       ELSE [ok |-> TRUE,
             entries |-> <<name.f.buf \o <<" ", "=", " ">> \o ty.f.buf>> \o more.entries,
             next |-> more.next]

NoTrait == [ok |-> FALSE, path |-> <<>>, args |-> <<>>, isI |-> FALSE, next |-> 0]

\* the path of the trait at offset k, its generic arguments, whether it is
\* an `I` path, and the offset after it; a backref stands for its target
RECURSIVE TraitAt(_, _, _)
TraitAt(inner, alt, k) ==
    LET end == RunEnd(inner, k + 2, Base62Set)
        generic == Piece(inner, alt, "print_path", k + 1)
        args == ArgsFrom(inner, alt, generic.next)
        plain == Piece(inner, alt, "print_path", k)
    IN IF k >= Len(inner) THEN NoTrait
       ELSE IF inner[k + 1] = "B"
       THEN IF end <= Len(inner) /\ inner[end] = "_" /\ TargetOf(inner, k) < k
            THEN [TraitAt(inner, alt, TargetOf(inner, k)) EXCEPT !.next = end]
            ELSE NoTrait
       ELSE IF inner[k + 1] = "I"
       THEN IF ~Fine(generic) THEN NoTrait
            ELSE IF ~args.ok THEN NoTrait
            ELSE [ok |-> TRUE, path |-> generic.f.buf, args |-> args.entries,
                  isI |-> TRUE, next |-> args.next]
       ELSE IF ~Fine(plain) THEN NoTrait
       ELSE [ok |-> TRUE, path |-> plain.f.buf, args |-> <<>>, isI |-> FALSE,
             next |-> plain.next]

\* the entries of a list with `, ` between them
RECURSIVE Listed(_)
Listed(es) ==
    IF es = <<>> THEN <<>>
    ELSE IF Len(es) = 1 THEN es[1]
    ELSE es[1] \o <<",", " ">> \o Listed(Tail(es))

\* a trait with its generic arguments and its bindings in one list
OneList(t, b) ==
    t.path \o (IF t.isI \/ b.entries # <<>>
               THEN <<"<">> \o Listed(t.args \o b.entries) \o <<">">>
               ELSE <<>>)

\* C30: wherever a trait of a dyn trait list can be read without a parse
\* error, print_dyn_trait prints its path and then one list of its generic
\* arguments and its bindings: `<` once, `, ` between the entries and nowhere
\* else, each binding as name, ` = ` and type, and `>` once; also for a trait
\* path behind a backref and for an `I` path with no generic arguments
C30_DynTraitList ==
    pc = "v0_shown" /\ shown.cap = NoCap =>
        \A k \in 0..(Len(dem.inner) - 1) :
            LET t == TraitAt(dem.inner, shown.alt, k)
                b == BindingsFrom(dem.inner, shown.alt, t.next)
                q == Piece(dem.inner, shown.alt, "print_dyn_trait", k)
            IN t.ok /\ b.ok =>
                   /\ Fine(q)
                   /\ q.next = b.next
                   /\ q.f.buf = OneList(t, b)

\* the same for the traits that are not an `I` path with no generic argument
\* and with bindings
C30_NonEmptyLists ==
    pc = "v0_shown" /\ shown.cap = NoCap =>
        \A k \in 0..(Len(dem.inner) - 1) :
            LET t == TraitAt(dem.inner, shown.alt, k)
                b == BindingsFrom(dem.inner, shown.alt, t.next)
                q == Piece(dem.inner, shown.alt, "print_dyn_trait", k)
            IN t.ok /\ b.ok /\ ~(t.isI /\ t.args = <<>> /\ b.entries # <<>>) =>
                   /\ Fine(q)
                   /\ q.next = b.next
                   /\ q.f.buf = OneList(t, b)
=============================================================================
